---------------------------- MODULE Spec2Model ----------------------------
(***************************************************************************)
(* A model of backend/scraper.py: the WebsiteScraper object (url, soup,    *)
(* response, load_time), its fetch, its four extractors and scrape_all;    *)
(* and of the functions of backend/optimization_engine.py,                 *)
(* backend/llm_engine.py and backend/implementation_engine.py that build   *)
(* blueprints, suggestions and fixes with or without the language model.   *)
(*                                                                         *)
(* Strings are sequences of pieces.  A piece is a short TLA+ string: a      *)
(* scheme with its colon ("http:"), one character ("/", "[", " "), or a    *)
(* word of letters ("Menu").  No string the code searches for occurs       *)
(* inside a piece of the alphabets below or across two of them, so the     *)
(* prefix, suffix and substring tests on pieces agree with the tests on    *)
(* characters.  Lengths are counted in characters, and a slice cuts the    *)
(* piece its last character falls in.                                      *)
(***************************************************************************)
EXTENDS Integers, Sequences, FiniteSets, TLC

VARIABLES
    input_url,   \* the url argument given to WebsiteScraper(url)
    url,         \* self.url
    soup,        \* self.soup
    response,    \* self.response
    load_time,   \* self.load_time
    site,        \* the environment: what the server answers with
    outcome,     \* what requests.get did in the last operation
    last,        \* the operation that ran last
    ret,         \* what it returned (or the exception it raised)
    gets,        \* the number of GET requests it issued
    args,        \* the arguments of a call to one of the engines' functions
    env,         \* its environment: the API key and what the model does
    calls        \* the functions and model calls it invoked, in order

scraperVars == <<input_url, url, soup, response, load_time, site, outcome, gets>>
engineVars == <<args, env, calls>>
vars == <<input_url, url, soup, response, load_time, site, outcome, last, ret,
          gets, args, env, calls>>

-----------------------------------------------------------------------------
(* Bounds of the model. *)

MaxUrlLen == 4      \* pieces in an input url (pure-function specification)
MaxPageLen == 3     \* tokens in an enumerated response body

-----------------------------------------------------------------------------
(* String helpers: Python's str methods on sequences of pieces. *)

\* s.startswith(p)
StartsWith(s, p) == Len(s) >= Len(p) /\ SubSeq(s, 1, Len(p)) = p

\* s.rstrip(c) for a one-character c
RECURSIVE RStrip(_, _)
RStrip(s, c) ==
    IF s = <<>> THEN s
    ELSE IF s[Len(s)] = c THEN RStrip(SubSeq(s, 1, Len(s) - 1), c)
    ELSE s

\* sub in s
Contains(sub, s) ==
    \E i \in 0..(Len(s) - Len(sub)) :
        \A j \in 1..Len(sub) : s[i + j] = sub[j]

\* all the sequences over S of length at most n
SeqsUpTo(S, n) == UNION {[1..k -> S] : k \in 0..n}

-----------------------------------------------------------------------------
(* URLs. *)

HTTP == <<"http:", "/", "/">>      \* 'http://'
HTTPS == <<"https:", "/", "/">>    \* 'https://'

\* WebsiteScraper._normalize_url
_normalize_url(u) ==
    LET withScheme ==
            IF ~(StartsWith(u, HTTP) \/ StartsWith(u, HTTPS))
            THEN HTTPS \o u
            ELSE u
    IN  RStrip(withScheme, "/")

\* The pieces input urls are made of, and the input urls of the
\* pure-function specification.
UrlPieces == {"http:", "https:", "ftp:", "/", "a"}
UrlInputs == SeqsUpTo(UrlPieces, MaxUrlLen)

-----------------------------------------------------------------------------
(* HTML.  A response body is a sequence of tokens (start tags with their   *)
(* attributes, end tags, character data), the units html.parser hands to   *)
(* BeautifulSoup's tree builder.  Attribute values and character data are  *)
(* strings (sequences of pieces); an element's attributes are a function   *)
(* from the names present to their values.                                 *)

NoAttrs == <<>>
Open(tag, attrs) == [k |-> "open", tag |-> tag, attrs |-> attrs, text |-> <<>>]
Close(tag) == [k |-> "close", tag |-> tag, attrs |-> NoAttrs, text |-> <<>>]
Text(s) == [k |-> "text", tag |-> "", attrs |-> NoAttrs, text |-> s]

\* tag.get(name, default)
Get(attrs, name, default) == IF name \in DOMAIN attrs THEN attrs[name] ELSE default
Has(attrs, name) == name \in DOMAIN attrs

\* The elements html.parser closes as soon as they open (bs4's
\* HTMLTreeBuilder.empty_element_tags), among the tags of the model.
VoidTags == {"img", "input", "meta", "link", "br"}

\* The elements whose content html.parser reads as character data up to
\* their own end tag (HTMLParser.CDATA_CONTENT_ELEMENTS).
CdataTags == {"script", "style"}

\* The order in which the model's pages write their attributes.
AttrOrder == <<"name", "property", "rel", "type", "src", "href", "alt",
               "class", "aria-label", "content", "method">>

\* the attributes of a start tag, as markup: ' name="value"' for each
RECURSIVE RawAttrs(_, _)
RawAttrs(attrs, i) ==
    IF i > Len(AttrOrder) \/ DOMAIN attrs = {} THEN <<>>
    ELSE (IF AttrOrder[i] \in DOMAIN attrs
          THEN <<" ", AttrOrder[i], "=", "\"">> \o attrs[AttrOrder[i]] \o <<"\"">>
          ELSE <<>>) \o RawAttrs(attrs, i + 1)

\* The markup of one token, as it stands in the response text.
Raw(t) ==
    CASE t.k = "open" -> <<"<", t.tag>> \o RawAttrs(t.attrs, 1) \o <<">">>
      [] t.k = "close" -> <<"<", "/", t.tag, ">">>
      [] OTHER -> t.text

\* response.text of a body
RECURSIVE RawText(_)
RawText(html) == IF html = <<>> THEN <<>> ELSE Raw(Head(html)) \o RawText(Tail(html))

\* A node of the tree: an element, or a string (tag "#text").  parent is the
\* index of the parent node in document order, 0 for the BeautifulSoup object.
Node(tag, attrs, text, parent) ==
    [tag |-> tag, attrs |-> attrs, text |-> text, parent |-> parent]

\* One token fed to the tree builder.  st.nodes is the tree so far, st.stack
\* the open elements (bs4's tagStack), st.data whether character data is
\* still being collected (bs4's current_data, flushed by every tag).
Feed(st, t) ==
    LET top == IF st.stack = <<>> THEN 0 ELSE st.stack[Len(st.stack)]
        n == Len(st.nodes)
        cdata == top # 0 /\ st.nodes[top].tag \in CdataTags
                 /\ ~(t.k = "close" /\ t.tag = st.nodes[top].tag)
        AddText(s) ==
            IF st.data
            THEN [st EXCEPT !.nodes[n].text = @ \o s]
            ELSE [st EXCEPT !.nodes = Append(@, Node("#text", NoAttrs, s, top)),
                            !.data = TRUE]
        \* the open elements named t.tag, innermost last
        opened == {i \in 1..Len(st.stack) : st.nodes[st.stack[i]].tag = t.tag}
    IN  CASE cdata \/ t.k = "text" ->
               IF Raw(t) = <<>> THEN st ELSE AddText(Raw(t))
          [] t.k = "open" /\ ~cdata ->
               [nodes |-> Append(st.nodes, Node(t.tag, t.attrs, <<>>, top)),
                stack |-> IF t.tag \in VoidTags THEN st.stack
                          ELSE Append(st.stack, n + 1),
                data |-> FALSE]
          [] OTHER ->
               \* an end tag: pop to the innermost open element of that name
               \* (BeautifulSoup._popToTag); without one, nothing is popped
               [nodes |-> st.nodes,
                stack |-> IF opened = {} THEN st.stack
                          ELSE SubSeq(st.stack, 1,
                                      (CHOOSE i \in opened :
                                          \A j \in opened : j <= i) - 1),
                data |-> FALSE]

RECURSIVE FeedAll(_, _)
FeedAll(st, html) ==
    IF html = <<>> THEN st ELSE FeedAll(Feed(st, Head(html)), Tail(html))

\* BeautifulSoup(text, 'html.parser'): the nodes in document order.
BeautifulSoup(html) ==
    FeedAll([nodes |-> <<>>, stack |-> <<>>, data |-> FALSE], html).nodes

-----------------------------------------------------------------------------
(* Queries on the tree. *)

\* the members of a set of indices, in ascending order
RECURSIVE InOrder(_, _, _)
InOrder(S, i, n) ==
    IF i > n THEN <<>>
    ELSE (IF i \in S THEN <<i>> ELSE <<>>) \o InOrder(S, i + 1, n)

\* node i is root or lies under it (root 0 is the whole document)
RECURSIVE Under(_, _, _)
Under(nodes, i, root) ==
    IF i = root THEN TRUE
    ELSE IF i = 0 THEN FALSE
    ELSE Under(nodes, nodes[i].parent, root)

\* soup.find_all(tags): the indices of the elements named in tags
find_all(nodes, tags) ==
    InOrder({i \in 1..Len(nodes) : nodes[i].tag \in tags}, 1, Len(nodes))

\* soup.find_all(tag, attrs={name: value}) / find_all(tag, name=value)
find_all_attr(nodes, tag, name, value) ==
    InOrder({i \in 1..Len(nodes) :
                /\ nodes[i].tag = tag
                /\ Has(nodes[i].attrs, name)
                /\ nodes[i].attrs[name] = value}, 1, Len(nodes))

\* soup.find_all(tag, name=True): the elements that carry the attribute
find_all_with(nodes, tags, name) ==
    InOrder({i \in 1..Len(nodes) :
                nodes[i].tag \in tags /\ Has(nodes[i].attrs, name)},
            1, Len(nodes))

\* some open element above node i (or node i itself) is named in tags
RECURSIVE Within(_, _, _)
Within(nodes, i, tags) ==
    IF i = 0 THEN FALSE
    ELSE IF nodes[i].tag \in tags THEN TRUE
    ELSE Within(nodes, nodes[i].parent, tags)

\* for el in soup(tags): el.decompose() -- the tree without the elements
\* named in tags and without everything under them
decompose_all(nodes, tags) ==
    LET keep == {i \in 1..Len(nodes) : ~Within(nodes, i, tags)}
        new(i) == IF i = 0 THEN 0 ELSE Cardinality({j \in keep : j <= i})
        kept == InOrder(keep, 1, Len(nodes))
    IN  [k \in 1..Len(kept) |->
            [nodes[kept[k]] EXCEPT !.parent = new(@)]]

-----------------------------------------------------------------------------
(* Text. *)

Whitespace == {" "}

\* s.strip()
RECURSIVE LStrip(_)
LStrip(s) ==
    IF s # <<>> /\ Head(s) \in Whitespace THEN LStrip(Tail(s)) ELSE s
RECURSIVE RStripWs(_)
RStripWs(s) ==
    IF s # <<>> /\ s[Len(s)] \in Whitespace
    THEN RStripWs(SubSeq(s, 1, Len(s) - 1)) ELSE s
Strip(s) == RStripWs(LStrip(s))

\* The letters-only pieces of the model, and the lower-case form of the
\* pieces that have upper-case letters.
sixty == "abcdefghijklmnopqrstuvwxyzabcdefghijklmnopqrstuvwxyzabcdefgh"
AlphaPieces == {"Menu", "menu", "one", "One", "two", "three", "a", "x",
                "contact", "blog", "faq", "row", "Foo", "foo", "Bar", "bar",
                "Blog", "FAQ", "frequently", "asked", sixty}
DigitPieces == {"1"}
LowerPiece(p) ==
    CASE p = "Menu" -> "menu"
      [] p = "One" -> "one"
      [] p = "Foo" -> "foo"
      [] p = "Bar" -> "bar"
      [] p = "Blog" -> "blog"
      [] p = "FAQ" -> "faq"
      [] p = "GZIP" -> "gzip"
      [] p = "No-Cache" -> "no-cache"
      [] OTHER -> p

\* s.lower()
lower(s) == [i \in 1..Len(s) |-> LowerPiece(s[i])]

\* len(s), in characters
RECURSIVE StrLen(_)
StrLen(s) == IF s = <<>> THEN 0 ELSE Len(Head(s)) + StrLen(Tail(s))

\* the pieces of s written out as one TLA+ string
RECURSIVE StrOf(_)
StrOf(s) == IF s = <<>> THEN "" ELSE Head(s) \o StrOf(Tail(s))

\* s[:n]: the first n characters; the piece character n falls in is cut
RECURSIVE Prefix(_, _)
Prefix(s, n) ==
    IF s = <<>> \/ n <= 0 THEN <<>>
    ELSE IF Len(Head(s)) > n THEN <<SubSeq(Head(s), 1, n)>>
    ELSE <<Head(s)>> \o Prefix(Tail(s), n - Len(Head(s)))

\* s.split(): the runs of s between whitespace
RECURSIVE Split(_, _)
Split(s, cur) ==
    IF s = <<>> THEN (IF cur = <<>> THEN <<>> ELSE <<cur>>)
    ELSE IF Head(s) \in Whitespace
         THEN (IF cur = <<>> THEN <<>> ELSE <<cur>>) \o Split(Tail(s), <<>>)
         ELSE Split(Tail(s), Append(cur, Head(s)))

\* separator.join(strings)
RECURSIVE Join(_, _)
Join(sep, strs) ==
    IF strs = <<>> THEN <<>>
    ELSE IF Len(strs) = 1 THEN strs[1]
    ELSE strs[1] \o sep \o Join(sep, Tail(strs))

\* tag.get_text(separator, strip) for the element at root (0: the soup).
\* The strings of script and style elements are Script and Stylesheet
\* objects, which get_text leaves out.
RECURSIVE Strings(_, _, _, _)
Strings(nodes, root, strip, i) ==
    IF i > Len(nodes) THEN <<>>
    ELSE LET nd == nodes[i]
             mine == /\ nd.tag = "#text"
                     /\ Under(nodes, i, root)
                     /\ (nd.parent = 0 \/ nodes[nd.parent].tag \notin CdataTags)
             str == IF strip THEN Strip(nd.text) ELSE nd.text
         IN  (IF mine /\ ~(strip /\ str = <<>>) THEN <<str>> ELSE <<>>)
             \o Strings(nodes, root, strip, i + 1)

get_text(nodes, root, separator, strip) ==
    Join(separator, Strings(nodes, root, strip, 1))

\* re.findall(r'\b[a-zA-Z]{2,}\b', s): the maximal runs of letters that are
\* at least two characters long and touch no digit.  from is the first
\* piece of the run being read (0: none).
RECURSIVE Words(_, _, _)
Words(s, i, from) ==
    LET run == SubSeq(s, from, i - 1)
        leftOk == from = 1 \/ s[from - 1] \notin DigitPieces
        rightOk == i > Len(s) \/ s[i] \notin DigitPieces
        word == IF from # 0 /\ StrLen(run) >= 2 /\ leftOk /\ rightOk
                THEN <<StrOf(run)>> ELSE <<>>
    IN  IF i > Len(s) THEN word
        ELSE IF s[i] \in AlphaPieces
             THEN Words(s, i + 1, IF from = 0 THEN i ELSE from)
             ELSE word \o Words(s, i + 1, 0)

\* min(a, b)
Min(a, b) == IF a < b THEN a ELSE b

\* Python 3's round(num / den) for num >= 0, den > 0: to the nearest
\* integer, a tie to the even neighbour.  The code rounds a float; the two
\* agree on every quotient the bounded pages produce (a float tie can fall
\* the other way from 23/40 on).
round(num, den) ==
    LET q == num \div den
        r == num % den
    IN  IF 2 * r > den \/ (2 * r = den /\ q % 2 = 1) THEN q + 1 ELSE q

-----------------------------------------------------------------------------
(* urllib.parse.urlparse(s).netloc, for the strings the code hands it.     *)

SchemePieces == {"http:", "https:", "ftp:"}
PathStart == {"/", "?", "#"}

\* the pieces of s from position i up to the first of '/', '?', '#'
RECURSIVE UpToPath(_, _)
UpToPath(s, i) ==
    IF i > Len(s) \/ s[i] \in PathStart THEN <<>>
    ELSE <<s[i]>> \o UpToPath(s, i + 1)

netloc(s) ==
    LET rest == IF s # <<>> /\ s[1] \in SchemePieces THEN Tail(s) ELSE s
    IN  IF StartsWith(rest, <<"/", "/">>) THEN UpToPath(rest, 3) ELSE <<>>

\* urlsplit raises ValueError("Invalid IPv6 URL") for a netloc with one
\* bracket and not the other.
urlparse_raises(s) ==
    LET nl == netloc(s)
    IN  (\E i \in 1..Len(nl) : nl[i] = "[") # (\E i \in 1..Len(nl) : nl[i] = "]")

-----------------------------------------------------------------------------
(* Return values.  A call either returns a value or raises. *)

Return(v) == [raised |-> FALSE, val |-> v]
Raise(e) == [raised |-> TRUE, val |-> e]
EmptyDict == <<>>      \* {}
NoSoup == [present |-> FALSE, nodes |-> <<>>]           \* self.soup = None
Soup(nodes) == [present |-> TRUE, nodes |-> nodes]
NoResponse == [present |-> FALSE, status |-> 0, html |-> <<>>, headers |-> <<>>]

\* bool(self.soup): a BeautifulSoup object is true even when it is empty
\* (Tag.__bool__), None is false.
SoupTruth(sp) == sp.present

\* bool(self.response): requests' Response.__bool__ is Response.ok, true
\* for a status below 400.
ResponseTruth(r) == r.present /\ r.status < 400

\* a multi-valued attribute (rel, class) matches a string when one of its
\* whitespace-separated values is the string, or the whole value is
MatchesValue(value, str) ==
    value = str \/ \E i \in 1..Len(Split(value, <<>>)) : Split(value, <<>>)[i] = str

-----------------------------------------------------------------------------
(* WebsiteScraper.get_seo_data *)

\* the links loop, were a link internal only when its host is the page's
RECURSIVE CountLinksSameHost(_, _, _, _, _, _)
CountLinksSameHost(nodes, links, i, base_domain, internal, external) ==
    IF i > Len(links) THEN Return([internal |-> internal, external |-> external])
    ELSE LET href == Get(nodes[links[i]].attrs, "href", <<>>)
             in == \/ StartsWith(href, <<"/">>)
                   \/ /\ StartsWith(href, HTTP) \/ StartsWith(href, HTTPS)
                      /\ netloc(href) = base_domain
             out == /\ StartsWith(href, HTTP) \/ StartsWith(href, HTTPS)
                    /\ netloc(href) # base_domain
         IN  IF (StartsWith(href, HTTP) \/ StartsWith(href, HTTPS))
                /\ urlparse_raises(href)
             THEN Raise("ValueError")
             ELSE CountLinksSameHost(nodes, links, i + 1, base_domain,
                                     internal + (IF in THEN 1 ELSE 0),
                                     external + (IF out THEN 1 ELSE 0))

\* the links loop: the counts after the anchors from position i on, or a
\* raise from urlparse
RECURSIVE CountLinks(_, _, _, _, _, _)
CountLinks(nodes, links, i, base_domain, internal, external) ==
    IF i > Len(links) THEN Return([internal |-> internal, external |-> external])
    ELSE LET href == Get(nodes[links[i]].attrs, "href", <<>>)
         IN  IF StartsWith(href, HTTP) \/ StartsWith(href, HTTPS)
             THEN IF urlparse_raises(href) THEN Raise("ValueError")
                  ELSE IF Contains(base_domain, netloc(href))
                       THEN CountLinks(nodes, links, i + 1, base_domain,
                                       internal + 1, external)
                       ELSE CountLinks(nodes, links, i + 1, base_domain,
                                       internal, external + 1)
             ELSE IF StartsWith(href, <<"/">>)
                  THEN CountLinks(nodes, links, i + 1, base_domain,
                                  internal + 1, external)
                  ELSE CountLinks(nodes, links, i + 1, base_domain,
                                  internal, external)

\* the ratio, were the alt text not stripped before it is tested
AltRatioNoStrip(nodes) ==
    LET images == find_all(nodes, {"img"})
        images_with_alt ==
            Cardinality({i \in 1..Len(images) :
                Get(nodes[images[i]].attrs, "alt", <<>>) # <<>>})
    IN  IF images # <<>> THEN round(images_with_alt * 100, Len(images)) ELSE 0

\* the image alt text ratio of lines 121-125
image_alt_ratio(nodes) ==
    LET images == find_all(nodes, {"img"})
        images_with_alt ==
            Cardinality({i \in 1..Len(images) :
                Strip(Get(nodes[images[i]].attrs, "alt", <<>>)) # <<>>})
    IN  IF images # <<>> THEN round(images_with_alt * 100, Len(images)) ELSE 0

\* the title, were its text not stripped
TitleUnstripped(nodes) ==
    LET titles == find_all(nodes, {"title"})
    IN  IF titles # <<>> THEN get_text(nodes, titles[1], <<>>, FALSE) ELSE <<>>

\* lines 72-74: the text of soup.find('title'), stripped; '' without one
seo_title(nodes) ==
    LET titles == find_all(nodes, {"title"})
    IN  IF titles # <<>> THEN get_text(nodes, titles[1], <<>>, TRUE) ELSE <<>>

\* the list of line 91, were the texts neither cut nor limited to three
H1TextsUncut(nodes, h1_tags) ==
    [k \in 1..Len(h1_tags) |-> get_text(nodes, h1_tags[k], <<>>, TRUE)]

\* line 91: [h1.get_text(strip=True)[:100] for h1 in h1_tags[:3]]
h1_texts(nodes, h1_tags) ==
    [k \in 1..Min(3, Len(h1_tags)) |->
        Prefix(get_text(nodes, h1_tags[k], <<>>, TRUE), 100)]

get_seo_data(sp, self_url) ==
    IF ~SoupTruth(sp) THEN Return(EmptyDict)
    ELSE
    LET nodes == sp.nodes
        title == seo_title(nodes)
        descs == find_all_attr(nodes, "meta", "name", <<"description">>)
        desc == IF descs # <<>> THEN Get(nodes[descs[1]].attrs, "content", <<>>)
                ELSE <<>>
        keys == find_all_attr(nodes, "meta", "name", <<"keywords">>)
        h1_tags == find_all(nodes, {"h1"})
        canon == InOrder({i \in 1..Len(nodes) :
                            /\ nodes[i].tag = "link"
                            /\ Has(nodes[i].attrs, "rel")
                            /\ MatchesValue(nodes[i].attrs["rel"], <<"canonical">>)},
                         1, Len(nodes))
        og == {i \in 1..Len(nodes) :
                  /\ nodes[i].tag = "meta"
                  /\ Has(nodes[i].attrs, "property")
                  /\ StartsWith(nodes[i].attrs["property"], <<"og:">>)}
        ogProps == {nodes[i].attrs["property"] : i \in og}
        lastOg(prop) == CHOOSE i \in og :
                           /\ nodes[i].attrs["property"] = prop
                           /\ \A j \in og : nodes[j].attrs["property"] = prop => j <= i
        base_domain == netloc(self_url)
        links == CountLinks(nodes, find_all_with(nodes, {"a"}, "href"), 1,
                            base_domain, 0, 0)
    IN  IF urlparse_raises(self_url) \/ links.raised THEN Raise("ValueError")
        ELSE Return([
            title |-> title,
            title_length |-> StrLen(title),
            meta_description |-> desc,
            meta_description_length |-> StrLen(desc),
            h1_count |-> Len(h1_tags),
            h1_texts |-> h1_texts(nodes, h1_tags),
            h2_count |-> Len(find_all(nodes, {"h2"})),
            meta_keywords |-> IF keys # <<>>
                              THEN Get(nodes[keys[1]].attrs, "content", <<>>)
                              ELSE <<>>,
            canonical_url |-> IF canon # <<>>
                              THEN Get(nodes[canon[1]].attrs, "href", <<>>)
                              ELSE <<>>,
            has_robots_meta |->
                find_all_attr(nodes, "meta", "name", <<"robots">>) # <<>>,
            og_tags |-> [prop \in ogProps |->
                            Get(nodes[lastOg(prop)].attrs, "content", <<>>)],
            internal_links |-> links.val.internal,
            external_links |-> links.val.external,
            image_alt_ratio |-> image_alt_ratio(nodes),
            structured_data |->
                find_all_attr(nodes, "script", "type",
                              <<"application/ld+json">>) # <<>>])

-----------------------------------------------------------------------------
(* WebsiteScraper.get_speed_data *)

\* the compression test, were the header not lower-cased first
CompressionCaseSensitive(headers) ==
    Contains(<<"gzip">>, Get(headers, "Content-Encoding", <<>>))

\* line 151: 'gzip' in headers.get('Content-Encoding', '').lower()
has_compression(headers) ==
    Contains(<<"gzip">>, lower(Get(headers, "Content-Encoding", <<>>)))

\* lines 154-155
has_caching(headers) ==
    LET cache_control == Get(headers, "Cache-Control", <<>>)
    IN  cache_control # <<>> /\ ~Contains(<<"no-cache">>, lower(cache_control))

get_speed_data(sp, resp, self_load_time) ==
    LET nodes == sp.nodes
        body == RawText(resp.html)
    IN  Return([
            \* round(self.load_time, 2): milliseconds to hundredths of a second
            load_time |-> round(self_load_time, 10),
            \* round(len(content) / 1024, 2), in hundredths of a kilobyte
            page_size_kb |-> IF ResponseTruth(resp)
                             THEN round(StrLen(body) * 100, 1024) ELSE 0,
            total_requests |-> 1,
            css_files |->
                IF SoupTruth(sp)
                THEN Cardinality({i \in 1..Len(nodes) :
                        /\ nodes[i].tag = "link"
                        /\ Has(nodes[i].attrs, "rel")
                        /\ MatchesValue(nodes[i].attrs["rel"], <<"stylesheet">>)})
                ELSE 0,
            js_files |-> IF SoupTruth(sp)
                         THEN Len(find_all_with(nodes, {"script"}, "src")) ELSE 0,
            image_count |-> IF SoupTruth(sp)
                            THEN Len(find_all(nodes, {"img"})) ELSE 0,
            has_compression |->
                ResponseTruth(resp) /\ has_compression(resp.headers),
            has_caching |->
                ResponseTruth(resp) /\ has_caching(resp.headers)])

-----------------------------------------------------------------------------
(* WebsiteScraper.get_content_data.  It returns a value and leaves a tree  *)
(* behind in self.soup: [ret, soup].                                       *)

PrunedTags == {"script", "style", "nav", "header", "footer"}
blog_indicators == {<<"blog">>, <<"article">>, <<"post">>, <<"news">>}
faq_indicators == {<<"faq">>, <<"frequently", " ", "asked">>, <<"questions">>}

RECURSIVE SumLens(_, _, _)
SumLens(nodes, paragraphs, i) ==
    IF i > Len(paragraphs) THEN 0
    ELSE Len(Split(get_text(nodes, paragraphs[i], <<>>, TRUE), <<>>))
         + SumLens(nodes, paragraphs, i + 1)

\* the pruning, were it to remove the script and style elements only
PruneScripts(nodes) == decompose_all(nodes, CdataTags)

\* lines 185-187: every script, style, nav, header and footer element of
\* self.soup is decomposed, in place
prune(nodes) == decompose_all(nodes, PrunedTags)

\* the words, were the text not lower-cased first
WordsCaseSensitive(text) == Words(text, 1, 0)

\* line 191: re.findall(r'\b[a-zA-Z]{2,}\b', text.lower())
content_words(text) == Words(lower(text), 1, 0)

\* the text searched for the indicators, were it the text of the pruned tree
PageTextPruned(resp) ==
    IF ResponseTruth(resp)
    THEN lower(get_text(prune(BeautifulSoup(resp.html)), 0, <<" ">>, TRUE))
    ELSE <<>>

\* line 205: self.response.text.lower() if self.response else ''
content_page_text(resp) ==
    IF ResponseTruth(resp) THEN lower(RawText(resp.html)) ELSE <<>>

\* get_content_data, were the text read before the elements are decomposed
ContentDataTextFirst(sp, resp) ==
    IF ~SoupTruth(sp) THEN [ret |-> Return(EmptyDict), soup |-> sp]
    ELSE
    LET pruned == prune(sp.nodes)
        text == get_text(sp.nodes, 0, <<" ">>, TRUE)
        words == content_words(text)
        paragraphs == find_all(pruned, {"p"})
        searched == content_page_text(resp)
        html_length == StrLen(RawText(resp.html))
    IN  [ret |-> Return([
            word_count |-> Len(words),
            paragraph_count |-> Len(paragraphs),
            unique_words |-> Cardinality({words[i] : i \in 1..Len(words)}),
            avg_paragraph_length |->
                IF paragraphs # <<>>
                THEN round(SumLens(pruned, paragraphs, 1), Len(paragraphs))
                ELSE 0,
            has_blog |-> \E ind \in blog_indicators : Contains(ind, searched),
            has_faq |-> \E ind \in faq_indicators : Contains(ind, searched),
            content_to_code_ratio |->
                IF ResponseTruth(resp) /\ html_length > 0
                THEN round(StrLen(text) * 100, html_length) ELSE 0,
            reading_level |-> "medium"]),
         soup |-> Soup(pruned)]

get_content_data(sp, resp) ==
    IF ~SoupTruth(sp) THEN [ret |-> Return(EmptyDict), soup |-> sp]
    ELSE
    LET pruned == prune(sp.nodes)
        text == get_text(pruned, 0, <<" ">>, TRUE)
        words == content_words(text)
        paragraphs == find_all(pruned, {"p"})
        searched == content_page_text(resp)
        html_length == StrLen(RawText(resp.html))
    IN  [ret |-> Return([
            word_count |-> Len(words),
            paragraph_count |-> Len(paragraphs),
            unique_words |-> Cardinality({words[i] : i \in 1..Len(words)}),
            avg_paragraph_length |->
                IF paragraphs # <<>>
                THEN round(SumLens(pruned, paragraphs, 1), Len(paragraphs))
                ELSE 0,
            has_blog |-> \E ind \in blog_indicators : Contains(ind, searched),
            has_faq |-> \E ind \in faq_indicators : Contains(ind, searched),
            content_to_code_ratio |->
                IF ResponseTruth(resp) /\ html_length > 0
                THEN round(StrLen(text) * 100, html_length) ELSE 0,
            reading_level |-> "medium"]),
         soup |-> Soup(pruned)]

-----------------------------------------------------------------------------
(* str(self.soup): the markup BeautifulSoup writes for the tree. *)

RECURSIVE Markup(_, _)
RECURSIVE ChildrenMarkup(_, _, _)
Markup(nodes, i) ==
    LET nd == nodes[i]
    IN  IF nd.tag = "#text" THEN nd.text
        ELSE IF nd.tag \in VoidTags
             THEN <<"<", nd.tag>> \o RawAttrs(nd.attrs, 1) \o <<"/", ">">>
             ELSE <<"<", nd.tag>> \o RawAttrs(nd.attrs, 1) \o <<">">>
                  \o ChildrenMarkup(nodes, i, 1)
                  \o <<"<", "/", nd.tag, ">">>
ChildrenMarkup(nodes, parent, j) ==
    IF j > Len(nodes) THEN <<>>
    ELSE (IF nodes[j].parent = parent THEN Markup(nodes, j) ELSE <<>>)
         \o ChildrenMarkup(nodes, parent, j + 1)

str_soup(nodes) == ChildrenMarkup(nodes, 0, 1)

-----------------------------------------------------------------------------
(* WebsiteScraper.get_ux_data *)

social_domains == {<<"facebook">>, <<"twitter">>, <<"linkedin">>,
                   <<"instagram">>, <<"youtube">>, <<"tiktok">>}
contact_indicators == {<<"contact">>, <<"email">>, <<"phone">>, <<"tel:">>,
                       <<"mailto:">>}
responsive_classes == {<<"container">>, <<"row">>, <<"col-">>, <<"flex">>,
                       <<"grid">>, <<"responsive">>, <<"mobile">>}
ButtonNames == {"button", "input[type=\"button\"]", "input[type=\"submit\"]"}

get_ux_data(sp) ==
    IF ~SoupTruth(sp) THEN Return(EmptyDict)
    ELSE
    LET nodes == sp.nodes
        all == 1..Len(nodes)
        has_viewport_meta ==
            find_all_attr(nodes, "meta", "name", <<"viewport">>) # <<>>
        \* a class or rel value matches the pattern when the pattern occurs
        \* in it, whatever the case
        search_forms == {i \in all :
            /\ Has(nodes[i].attrs, "class")
            /\ Contains(<<"search">>, lower(nodes[i].attrs["class"]))}
        page_text == lower(get_text(nodes, 0, <<>>, FALSE))
        markup == str_soup(nodes)
        images == find_all(nodes, {"img"})
        with_alt == Cardinality({i \in 1..Len(images) :
                        Get(nodes[images[i]].attrs, "alt", <<>>) # <<>>})
        labels == find_all(nodes, {"label"})
        inputs == find_all(nodes, {"input"})
        accessibility_score ==
            (IF images # <<>> THEN (with_alt * 30) \div Len(images) ELSE 0)
            + (IF find_all(nodes, {"h1"}) # <<>> THEN 20 ELSE 0)
            + (IF inputs # <<>> /\ labels # <<>>
               THEN Min(30, (Len(labels) * 30) \div Len(inputs)) ELSE 0)
            + (IF \E i \in all : Has(nodes[i].attrs, "aria-label") THEN 20 ELSE 0)
    IN  Return([
            has_viewport_meta |-> has_viewport_meta,
            has_favicon |-> \E i \in all :
                /\ nodes[i].tag = "link"
                /\ Has(nodes[i].attrs, "rel")
                /\ Contains(<<"icon">>, lower(nodes[i].attrs["rel"])),
            form_count |-> Len(find_all(nodes, {"form"})),
            button_count |-> Len(find_all(nodes, ButtonNames)),
            navigation_elements |-> Len(find_all(nodes, {"nav"})),
            has_search |->
                \/ find_all_attr(nodes, "input", "type", <<"search">>) # <<>>
                \/ search_forms # {},
            has_social_links |-> \E i \in all :
                /\ nodes[i].tag = "a"
                /\ Has(nodes[i].attrs, "href")
                /\ \E social \in social_domains :
                      Contains(social, lower(nodes[i].attrs["href"])),
            has_contact_info |-> \E ind \in contact_indicators :
                Contains(ind, page_text) \/ Contains(ind, markup),
            mobile_friendly_indicators |->
                (IF has_viewport_meta THEN 30 ELSE 0)
                + (IF \E cls \in responsive_classes : Contains(cls, markup)
                   THEN 40 ELSE 0),
            accessibility_score |-> Min(100, accessibility_score)])

-----------------------------------------------------------------------------
(* WebsiteScraper.fetch.  net is what requests.get does this time: it      *)
(* raises (no connection, timeout), or it returns a response after         *)
(* net.elapsed milliseconds.  The clock reads net.start when line 34 reads *)
(* it, and parsing the body takes net.parse milliseconds.  The result is   *)
(* the return value, the fields of self the call leaves behind, and the    *)
(* number of GETs it issued.                                               *)

AsResponse(net) ==
    [present |-> TRUE, status |-> net.status, html |-> net.html,
     headers |-> net.headers]

\* fetch, were every response taken for a success
FetchAnyStatus(sp, resp, self_load_time, net) ==
    IF net.raises
    THEN [ret |-> Return(FALSE), soup |-> sp, response |-> resp,
          load_time |-> self_load_time, gets |-> 1]
    ELSE [ret |-> Return(TRUE), soup |-> Soup(BeautifulSoup(net.html)),
          response |-> AsResponse(net), load_time |-> net.elapsed, gets |-> 1]

\* fetch, were a failed GET tried a second time
FetchWithRetry(sp, resp, self_load_time, net) ==
    IF net.raises
    THEN [ret |-> Return(FALSE), soup |-> sp, response |-> resp,
          load_time |-> self_load_time, gets |-> 2]
    ELSE IF net.status = 200
         THEN [ret |-> Return(TRUE), soup |-> Soup(BeautifulSoup(net.html)),
               response |-> AsResponse(net), load_time |-> net.elapsed,
               gets |-> 1]
         ELSE [ret |-> Return(FALSE), soup |-> sp, response |-> AsResponse(net),
               load_time |-> net.elapsed, gets |-> 2]

\* fetch, were the end of the interval read after the body is parsed
FetchTimesParsing(sp, resp, self_load_time, net) ==
    LET start_time == net.start
        returned == net.start + net.elapsed
        parsed == returned + net.parse
    IN  IF net.raises
        THEN [ret |-> Return(FALSE), soup |-> sp, response |-> resp,
              load_time |-> self_load_time, gets |-> 1]
        ELSE IF net.status = 200
             THEN [ret |-> Return(TRUE), soup |-> Soup(BeautifulSoup(net.html)),
                   response |-> AsResponse(net),
                   load_time |-> parsed - start_time, gets |-> 1]
             ELSE [ret |-> Return(FALSE), soup |-> sp,
                   response |-> AsResponse(net),
                   load_time |-> returned - start_time, gets |-> 1]

fetch(sp, resp, self_load_time, net) ==
    LET start_time == net.start                  \* line 34: time.time()
        returned == net.start + net.elapsed      \* line 36: time.time()
    IN  IF net.raises
        THEN \* line 35 raises: nothing is assigned, the handler returns False
             [ret |-> Return(FALSE), soup |-> sp, response |-> resp,
              load_time |-> self_load_time, gets |-> 1]
        ELSE IF net.status = 200
             THEN [ret |-> Return(TRUE), soup |-> Soup(BeautifulSoup(net.html)),
                   response |-> AsResponse(net),
                   load_time |-> returned - start_time, gets |-> 1]
             ELSE [ret |-> Return(FALSE), soup |-> sp,
                   response |-> AsResponse(net),
                   load_time |-> returned - start_time, gets |-> 1]

-----------------------------------------------------------------------------
(* WebsiteScraper.scrape_all: the (bool, dict) it returns, or the          *)
(* exception that leaves it, and the fields of self it leaves behind.      *)

\* the failure record, were the speed signals still collected
FailureRecordPartial(self_url) ==
    [url |-> self_url, error |-> "Failed to fetch website",
     seo |-> EmptyDict, speed |-> get_speed_data(NoSoup, NoResponse, 0).val,
     content |-> EmptyDict, ux |-> EmptyDict]

\* the record of lines 311-318
FailureRecord(self_url) ==
    [url |-> self_url, error |-> "Failed to fetch website",
     seo |-> EmptyDict, speed |-> EmptyDict,
     content |-> EmptyDict, ux |-> EmptyDict]

\* the title of the record, were it read once get_content_data has pruned
\* the tree
RecordTitlePruned(nodes) ==
    LET titles == find_all(prune(nodes), {"title"})
    IN  IF titles # <<>>
        THEN get_text(prune(nodes), titles[1], <<>>, TRUE)
        ELSE <<>>

\* line 322: self.soup.title.get_text(strip=True) if self.soup.title else ''
record_title(nodes) ==
    LET titles == find_all(nodes, {"title"})
    IN  IF titles # <<>> THEN get_text(nodes, titles[1], <<>>, TRUE) ELSE <<>>

scrape_all(self_url, sp, resp, self_load_time, net) ==
    LET f == fetch(sp, resp, self_load_time, net)
        seo == get_seo_data(f.soup, self_url)
        speed == get_speed_data(f.soup, f.response, f.load_time)
        content == get_content_data(f.soup, f.response)
        ux == get_ux_data(content.soup)
    IN  IF ~f.ret.val
        THEN [f EXCEPT !.ret = Return([ok |-> FALSE,
                                       record |-> FailureRecord(self_url)])]
        ELSE IF seo.raised
        THEN [f EXCEPT !.ret = seo]
        ELSE [f EXCEPT
                !.ret = Return([ok |-> TRUE, record |-> [
                    url |-> self_url,
                    title |-> record_title(f.soup.nodes),
                    seo |-> seo.val,
                    speed |-> speed.val,
                    content |-> content.ret.val,
                    ux |-> ux.val]]),
                !.soup = content.soup]

-----------------------------------------------------------------------------
(* The sites and the network. *)

nav == Open("nav", NoAttrs)
nav_end == Close("nav")
p == Open("p", NoAttrs)
p_end == Close("p")
img == Open("img", NoAttrs)
img_alt == Open("img", [alt |-> <<"x">>])
img_blank_alt == Open("img", [alt |-> <<" ">>])
a_root == Open("a", [href |-> <<"/">>])
a_bad_host == Open("a", [href |-> <<"http:", "/", "/", "[">>])
script_src == Open("script", [src |-> <<"x">>])
Menu == Text(<<"Menu">>)

\* the page of the specification's end-to-end scenario:
\* <nav>Menu</nav><p>one two three</p>
NavPage == <<nav, Menu, nav_end, p, Text(<<"one", " ", "two", " ", "three">>), p_end>>

\* the tokens of the enumerated pages: of the pipeline specification, and
\* of the specification of the image signals
Tokens == {nav, Menu, img_alt, a_bad_host}
ImageTokens == {nav, img, img_alt, img_blank_alt}
Pages == SeqsUpTo(Tokens, MaxPageLen) \cup {NavPage}
ImagePages == SeqsUpTo(ImageTokens, MaxPageLen)

NoHeaders == <<>>
Statuses == {200, 204, 301, 404}
\* milliseconds: what a GET takes, what the clock reads when fetch starts
\* its interval, and what parsing a body takes
ElapsedSamples == {12}
StartSamples == {1000}
ParseSamples == {7}

\* no GET was made
NoNet == [raises |-> FALSE, why |-> "", status |-> 0, html |-> <<>>,
          headers |-> NoHeaders, start |-> 0, elapsed |-> 0, parse |-> 0]

\* what requests.get may do for a site: it raises after s.elapsed, or it
\* answers after s.elapsed
Nets(s) ==
    {[raises |-> TRUE, why |-> w, status |-> 0, html |-> <<>>,
      headers |-> NoHeaders, start |-> t, elapsed |-> e, parse |-> 0] :
        w \in {"unreachable", "timeout"}, t \in StartSamples, e \in s.elapsed}
    \cup
    {[raises |-> FALSE, why |-> "", status |-> st, html |-> s.html,
      headers |-> s.headers, start |-> t, elapsed |-> e, parse |-> d] :
        st \in Statuses, t \in StartSamples, e \in s.elapsed,
        d \in ParseSamples}

ScraperUrls == {<<"a", "/">>}

-----------------------------------------------------------------------------
(* The scraper as a state machine: one WebsiteScraper, whose methods are   *)
(* called in any order.                                                    *)

None == Return(<<>>)

\* no call to an engine is modelled
EngineIdle == args = <<>> /\ env = <<>> /\ calls = <<>>

\* WebsiteScraper.__init__
Constructed(u, s) ==
    /\ input_url = u
    /\ url = _normalize_url(u)
    /\ soup = NoSoup
    /\ response = NoResponse
    /\ load_time = 0
    /\ site = s
    /\ outcome = NoNet
    /\ last = "__init__"
    /\ ret = None
    /\ gets = 0
    /\ EngineIdle

Init ==
    \E u \in ScraperUrls, page \in Pages :
        Constructed(u, [html |-> page, headers |-> NoHeaders,
                        elapsed |-> ElapsedSamples])

Fetch ==
    \E n \in Nets(site) :
        LET f == fetch(soup, response, load_time, n)
        IN  /\ outcome' = n
            /\ soup' = f.soup
            /\ response' = f.response
            /\ load_time' = f.load_time
            /\ ret' = f.ret
            /\ gets' = f.gets
            /\ last' = "fetch"
            /\ UNCHANGED <<args, env, calls, input_url, url, site>>

GetSeoData ==
    /\ ret' = get_seo_data(soup, url)
    /\ last' = "get_seo_data"
    /\ gets' = 0
    /\ outcome' = NoNet
    /\ UNCHANGED <<args, env, calls, input_url, url, soup, response, load_time, site>>

GetSpeedData ==
    /\ ret' = get_speed_data(soup, response, load_time)
    /\ last' = "get_speed_data"
    /\ gets' = 0
    /\ outcome' = NoNet
    /\ UNCHANGED <<args, env, calls, input_url, url, soup, response, load_time, site>>

GetContentData ==
    LET c == get_content_data(soup, response)
    IN  /\ ret' = c.ret
        /\ soup' = c.soup
        /\ last' = "get_content_data"
        /\ gets' = 0
        /\ outcome' = NoNet
        /\ UNCHANGED <<args, env, calls, input_url, url, response, load_time, site>>

GetUxData ==
    /\ ret' = get_ux_data(soup)
    /\ last' = "get_ux_data"
    /\ gets' = 0
    /\ outcome' = NoNet
    /\ UNCHANGED <<args, env, calls, input_url, url, soup, response, load_time, site>>

ScrapeAll ==
    \E n \in Nets(site) :
        LET r == scrape_all(url, soup, response, load_time, n)
        IN  /\ outcome' = n
            /\ soup' = r.soup
            /\ response' = r.response
            /\ load_time' = r.load_time
            /\ ret' = r.ret
            /\ gets' = r.gets
            /\ last' = "scrape_all"
            /\ UNCHANGED <<args, env, calls, input_url, url, site>>

Next ==
    \/ Fetch
    \/ GetSeoData
    \/ GetSpeedData
    \/ GetContentData
    \/ GetUxData
    \/ ScrapeAll

Spec == Init /\ [][Next]_vars

\* the same scraper on the pages made of images
InitImages ==
    \E u \in ScraperUrls, page \in ImagePages :
        Constructed(u, [html |-> page, headers |-> NoHeaders,
                        elapsed |-> ElapsedSamples])

SpecImages == InitImages /\ [][Next]_vars

\* the same scraper on the pages of the ux signals: every page of at most
\* MaxUxLen of the tokens below, and the pages written out
header == Open("header", NoAttrs)
h1 == Open("h1", NoAttrs)
h1_end == Close("h1")
label == Open("label", NoAttrs)
label_end == Close("label")
input_text == Open("input", [type |-> <<"text">>])
input_submit == Open("input", [type |-> <<"submit">>])
input_button == Open("input", [type |-> <<"button">>])
button == Open("button", NoAttrs)
button_end == Close("button")
form == Open("form", NoAttrs)
div_aria == Open("div", "aria-label" :> <<"x">>)
meta_viewport == Open("meta", [name |-> <<"viewport">>])
div_row == Open("div", [class |-> <<"row">>])

\* an image with an alt, a heading, two labels for one input and an
\* aria-label: every part of the accessibility score at its most
AccessiblePage ==
    <<img_alt, h1, h1_end, label, label_end, label, label_end, input_text,
      div_aria>>
\* three inputs and two labels
FormPage == <<form, label, label_end, label, label_end, input_text,
              input_submit, input_button, button, button_end>>
\* a page whose heading and whose responsive markup are in its header
HeaderPage == <<header, div_row, h1, Menu, h1_end>>

MaxUxLen == 2
UxTokens == {header, nav, h1, img, img_alt, label, input_submit, button, form,
             div_aria, meta_viewport, div_row}
UxPages == SeqsUpTo(UxTokens, MaxUxLen)
           \cup {AccessiblePage, FormPage, HeaderPage}

InitUx ==
    \E u \in ScraperUrls, page \in UxPages :
        Constructed(u, [html |-> page, headers |-> NoHeaders,
                        elapsed |-> ElapsedSamples])

SpecUx == InitUx /\ [][Next]_vars

\* the same scraper on the pages of titles and headings: a page is up to
\* MaxTitles title elements, or up to MaxHeadings h1 elements, or one of
\* the pages written out
Foo == Text(<<" ", "Foo", " ">>)
Bar == Text(<<"Bar">>)
Long == Text(<<sixty, " ", sixty>>)
title == Open("title", NoAttrs)
title_end == Close("title")
TitleFoo == <<title, Foo, title_end>>
TitleBar == <<title, Bar, title_end>>
TitleEmpty == <<title, title_end>>
H1Foo == <<h1, Foo, h1_end>>
H1Long == <<h1, Long, h1_end>>

\* the blocks of a sequence of blocks, one after the other
RECURSIVE Concat(_)
Concat(blocks) ==
    IF blocks = <<>> THEN <<>> ELSE Head(blocks) \o Concat(Tail(blocks))

MaxTitles == 2
MaxHeadings == 4
TitlePages ==
    {Concat(bs) : bs \in SeqsUpTo({TitleFoo, TitleBar, TitleEmpty}, MaxTitles)}
H1Pages == {Concat(bs) : bs \in SeqsUpTo({H1Foo, H1Long}, MaxHeadings)}
\* a heading left open, with a second heading and an image inside it
OpenHeadingPage == <<h1, Bar, img_alt>> \o H1Foo
\* a title and a heading inside a header
HeaderTitlePage == <<header>> \o TitleFoo \o H1Long
HeadingPages == TitlePages \cup H1Pages \cup {OpenHeadingPage, HeaderTitlePage}

InitHeadings ==
    \E u \in ScraperUrls, page \in HeadingPages :
        Constructed(u, [html |-> page, headers |-> NoHeaders,
                        elapsed |-> ElapsedSamples])

SpecHeadings == InitHeadings /\ [][Next]_vars

\* the same scraper on sites that answer with response headers: each of
\* Content-Encoding and Cache-Control is absent or has one of the values
\* below
EncodingValues == {<<>>, <<"gzip">>, <<"GZIP">>, <<"br">>,
                   <<"br", ",", " ", "gzip">>}
CachingValues == {<<>>, <<"max-age=1">>, <<"no-cache">>, <<"No-Cache">>,
                  <<"private", ",", " ", "no-cache">>}
HeaderSets ==
    {NoHeaders}
    \cup {"Content-Encoding" :> e : e \in EncodingValues}
    \cup {"Cache-Control" :> c : c \in CachingValues}
    \cup {("Content-Encoding" :> e) @@ ("Cache-Control" :> c) :
             e \in EncodingValues, c \in CachingValues}
HeaderPages == {<<>>, <<img_alt>>}

InitHeaders ==
    \E u \in ScraperUrls, page \in HeaderPages, hs \in HeaderSets :
        Constructed(u, [html |-> page, headers |-> hs,
                        elapsed |-> ElapsedSamples])

SpecHeaders == InitHeaders /\ [][Next]_vars

\* the same scraper (its url is https://a) on the pages of links: every
\* page of at most MaxLinks of the anchors below, and the page written out
a_plain == Open("a", NoAttrs)
a_same_host == Open("a", [href |-> <<"https:", "/", "/", "a", "/", "x">>])
a_longer_host == Open("a", [href |-> <<"http:", "/", "/", "b", "a">>])
a_other_host == Open("a", [href |-> <<"http:", "/", "/", "b">>])
a_ftp == Open("a", [href |-> <<"ftp:", "/", "/", "b">>])
a_relative == Open("a", [href |-> <<"x">>])
a_no_scheme == Open("a", [href |-> <<"/", "/", "b">>])
MaxLinks == 2
LinkTokens == {a_root, a_longer_host, a_other_host, a_ftp, a_relative}
LinkPages ==
    SeqsUpTo(LinkTokens, MaxLinks)
    \cup {<<a_plain, a_same_host, a_no_scheme, a_ftp, a_longer_host>>}

InitLinks ==
    \E u \in ScraperUrls, page \in LinkPages :
        Constructed(u, [html |-> page, headers |-> NoHeaders,
                        elapsed |-> ElapsedSamples])

SpecLinks == InitLinks /\ [][Next]_vars

\* the same scraper on the pages of the content signals: a page is one
\* text of at most MaxTextLen pieces, or one of the pages written out
MaxTextLen == 3
WordPieces == {"One", "one", " ", "1"}
TextPages == {<<Text(str)>> : str \in SeqsUpTo(WordPieces, MaxTextLen)}
\* a single letter is no word
LetterPages == {<<Text(<<"a">>)>>, <<Text(<<"a", " ", "one">>)>>}
\* words inside an element that is pruned, and one word after it
PrunedPage(tag) ==
    <<Open(tag, NoAttrs), Text(<<"One", " ", "two">>), Close(tag),
      p, Text(<<"one">>), p_end>>
\* a footer inside a paragraph, with words around it
FooterInParagraph ==
    <<p, Text(<<"two">>), Open("footer", NoAttrs), Text(<<"One">>),
      Close("footer"), Text(<<"one">>), p_end>>
\* a nav that is never closed: the rest of the page is inside it
OpenNavPage == <<p, Text(<<"two">>), p_end, nav, Menu, p, Text(<<"one">>), p_end>>
\* a word in two strings: the second half is in an element of its own
SplitWordPage ==
    <<p, Text(<<"two">>), Open("b", NoAttrs), Text(<<"one">>), Close("b"), p_end>>
\* the indicators of a blog and of a faq: in a nav, in an attribute value,
\* in a script, and in the text
IndicatorPages ==
    {<<nav, Text(<<"Blog">>), nav_end>>,
     <<Open("a", [href |-> <<"/", "blog">>])>>,
     <<Open("form", [method |-> <<"post">>])>>,
     <<Open("script", NoAttrs), Text(<<"FAQ">>), Close("script")>>,
     <<Open("footer", NoAttrs), Text(<<"frequently", " ", "asked">>)>>,
     <<p, Text(<<"frequently", " ", "one">>), p_end>>,
     <<p, Text(<<"faq", " ", "Blog">>), p_end>>}
ContentPages ==
    TextPages \cup LetterPages \cup {PrunedPage(tag) : tag \in PrunedTags}
    \cup {NavPage, FooterInParagraph, OpenNavPage, SplitWordPage}
    \cup IndicatorPages

InitContent ==
    \E u \in ScraperUrls, page \in ContentPages :
        Constructed(u, [html |-> page, headers |-> NoHeaders,
                        elapsed |-> ElapsedSamples])

SpecContent == InitContent /\ [][Next]_vars

\* the same scraper on sites that answer now sooner, now later
SlowElapsedSamples == {12, 30}
ClockPages == {<<>>, NavPage}

InitClock ==
    \E u \in ScraperUrls, page \in ClockPages :
        Constructed(u, [html |-> page, headers |-> NoHeaders,
                        elapsed |-> SlowElapsedSamples])

SpecClock == InitClock /\ [][Next]_vars

-----------------------------------------------------------------------------
(* The constructor alone, over every input url of the bound. *)

InitUrl ==
    /\ input_url \in UrlInputs
    /\ url = <<>>
    /\ soup = NoSoup
    /\ response = NoResponse
    /\ load_time = 0
    /\ site = [html |-> <<>>, headers |-> NoHeaders, elapsed |-> ElapsedSamples]
    /\ outcome = NoNet
    /\ last = "new"
    /\ ret = None
    /\ gets = 0
    /\ EngineIdle

Construct ==
    /\ last = "new"
    /\ url' = _normalize_url(input_url)
    /\ last' = "__init__"
    /\ UNCHANGED <<args, env, calls, input_url, soup, response, load_time, site, outcome, ret, gets>>

NextUrl == Construct

SpecUrl == InitUrl /\ [][NextUrl]_vars

-----------------------------------------------------------------------------
(* Properties.                                                             *)

\* the last GET failed: it raised, or its status was not 200
FetchFailed == outcome.raises \/ outcome.status # 200

\* the tree parsing the response body gives
Parsed == BeautifulSoup(site.html)

SeoKeys == {"title", "title_length", "meta_description",
            "meta_description_length", "h1_count", "h1_texts", "h2_count",
            "meta_keywords", "canonical_url", "has_robots_meta", "og_tags",
            "internal_links", "external_links", "image_alt_ratio",
            "structured_data"}
SpeedKeys == {"load_time", "page_size_kb", "total_requests", "css_files",
              "js_files", "image_count", "has_compression", "has_caching"}
ContentKeys == {"word_count", "paragraph_count", "unique_words",
                "avg_paragraph_length", "has_blog", "has_faq",
                "content_to_code_ratio", "reading_level"}
UxKeys == {"has_viewport_meta", "has_favicon", "form_count", "button_count",
           "navigation_elements", "has_search", "has_social_links",
           "has_contact_info", "mobile_friendly_indicators",
           "accessibility_score"}

\* C1: when the GET of scrape_all fails (it raises, times out, or answers
\* with a status other than 200), scrape_all returns False and a record with
\* the normalized url, an error reason, and seo, speed, content and ux all
\* empty -- also when an earlier fetch left a tree and a response behind.
C1_FailureRecord ==
    (last = "scrape_all" /\ FetchFailed) =>
        /\ ~ret.raised
        /\ ret.val.ok = FALSE
        /\ DOMAIN ret.val.record = {"url", "error", "seo", "speed", "content", "ux"}
        /\ ret.val.record.url = _normalize_url(input_url)
        /\ ret.val.record.error # ""
        /\ ret.val.record.seo = EmptyDict
        /\ ret.val.record.speed = EmptyDict
        /\ ret.val.record.content = EmptyDict
        /\ ret.val.record.ux = EmptyDict

\* a scrape_all whose GET timed out, on a scraper that still holds the tree
\* and the response of an earlier successful fetch
C1_Witness ==
    /\ last = "scrape_all"
    /\ outcome.raises /\ outcome.why = "timeout"
    /\ soup.present /\ response.status = 200
    /\ ret.val.ok = FALSE

\* C2: scrape_all always returns a record; no exception leaves it, whatever
\* the url, the response body and the headers.
C2_NeverRaises == last = "scrape_all" => ~ret.raised

\* C3: no extractor changes the tree: as long as the scraper holds a tree, it
\* is the tree that parsing the response body gave.
C3_TreeUnchanged == soup.present => soup.nodes = Parsed

\* C4: after a successful fetch each extractor returns what it returns when it
\* is the first one called, whichever extractors ran before it.
C4_OrderIndependent ==
    (soup.present /\ response.status = 200) =>
        /\ last = "get_seo_data" => ret = get_seo_data(Soup(Parsed), url)
        /\ last = "get_speed_data" =>
              ret = get_speed_data(Soup(Parsed), response, load_time)
        /\ last = "get_content_data" =>
              ret = get_content_data(Soup(Parsed), response).ret
        /\ last = "get_ux_data" => ret = get_ux_data(Soup(Parsed))

\* C5: in the record of a successful scrape_all, ux.navigation_elements is
\* the number of <nav> elements of the fetched page.
C5_NavCounted ==
    (last = "scrape_all" /\ ~ret.raised /\ ret.val.ok) =>
        ret.val.record.ux.navigation_elements = Len(find_all(Parsed, {"nav"}))

C7_OneGet == last = "scrape_all" => gets = 1

\* a scrape_all whose only GET was answered 404
C7_Witness ==
    /\ last = "scrape_all"
    /\ ~outcome.raises /\ outcome.status = 404
    /\ gets = 1


\* a url carries a scheme when it begins with a scheme followed by '://'
HasScheme(u) ==
    Len(u) >= 3 /\ u[1] \in SchemePieces /\ u[2] = "/" /\ u[3] = "/"

\* C8: 'https://' is prepended exactly when the input has no scheme, and the
\* normalized url begins with a scheme followed by '://' and does not end
\* with '/'.
C8_SchemeNormalized ==
    last = "__init__" =>
        /\ (url = RStrip(HTTPS \o input_url, "/")) <=> ~HasScheme(input_url)
        /\ HasScheme(url)
        /\ url = <<>> \/ url[Len(url)] # "/"

\* C9: once the GET of scrape_all succeeded, scrape_all returns True and a
\* record without an error field whose seo, speed, content and ux hold every
\* one of their signals, whatever the page; and a record has an error field
\* exactly when the flag is False.
C9_SignalsComplete ==
    last = "scrape_all" =>
        /\ ~FetchFailed =>
              /\ ~ret.raised
              /\ ret.val.ok
              /\ "error" \notin DOMAIN ret.val.record
              /\ DOMAIN ret.val.record.seo = SeoKeys
              /\ DOMAIN ret.val.record.speed = SpeedKeys
              /\ DOMAIN ret.val.record.content = ContentKeys
              /\ DOMAIN ret.val.record.ux = UxKeys
        /\ ~ret.raised =>
              (("error" \in DOMAIN ret.val.record) <=> ~ret.val.ok)

\* The seo signals a state holds, and the tree they were read from: the
\* parsed page in scrape_all, the scraper's tree in get_seo_data.
SeoReturned ==
    \/ last = "scrape_all" /\ ~ret.raised /\ ret.val.ok
    \/ last = "get_seo_data" /\ ~ret.raised /\ soup.present
SeoSignals == IF last = "scrape_all" THEN ret.val.record.seo ELSE ret.val
SeoTree == IF last = "scrape_all" THEN Parsed ELSE soup.nodes
Images == {i \in 1..Len(SeoTree) : SeoTree[i].tag = "img"}
NonEmptyAlt == {i \in Images : Get(SeoTree[i].attrs, "alt", <<>>) # <<>>}
NonBlankAlt == {i \in Images :
                   \E j \in 1..Len(Get(SeoTree[i].attrs, "alt", <<>>)) :
                        SeoTree[i].attrs["alt"][j] \notin Whitespace}
Abs(x) == IF x < 0 THEN -x ELSE x
\* r is an integer nearest to num/den
IsRounded(r, num, den) == 2 * Abs(num - r * den) <= den

\* C10, as the specification states it: image_alt_ratio is an integer in
\* 0..100, 100 when every <img> has a non-empty alt, 0 without images, and
\* otherwise round(100 * images with a non-blank alt / images).
C10_NonEmptyAlt ==
    SeoReturned =>
        LET ratio == SeoSignals.image_alt_ratio
            total == Cardinality(Images)
        IN  /\ ratio \in 0..100
            /\ total = 0 => ratio = 0
            /\ (total > 0 /\ NonEmptyAlt = Images) => ratio = 100
            /\ (total > 0 /\ NonEmptyAlt # Images) =>
                  IsRounded(ratio, 100 * Cardinality(NonBlankAlt), total)

\* C10, amended: image_alt_ratio is an integer in 0..100, 0 without images,
\* 100 when every <img> has an alt that is not only whitespace, and always
\* an integer nearest to 100 * images with a non-blank alt / images.
C10_NonBlankAlt ==
    SeoReturned =>
        LET ratio == SeoSignals.image_alt_ratio
            total == Cardinality(Images)
        IN  /\ ratio \in 0..100
            /\ total = 0 => ratio = 0
            /\ total > 0 =>
                  /\ IsRounded(ratio, 100 * Cardinality(NonBlankAlt), total)
                  /\ NonBlankAlt = Images => ratio = 100

\* a scrape_all of a page with three images, one with a whitespace alt and
\* one without an alt: 1 of 3, rounded to 33
C10_Witness ==
    /\ last = "scrape_all" /\ ~ret.raised /\ ret.val.ok
    /\ Cardinality(Images) = 3
    /\ Cardinality(NonEmptyAlt) = 2
    /\ Cardinality(NonBlankAlt) = 1
    /\ ret.val.record.seo.image_alt_ratio = 33

-----------------------------------------------------------------------------
(* The seo signals of titles, headings and links. *)

\* the <h1> elements of the tree the seo signals were read from, in
\* document order, and the text of an element
SeoH1 == InOrder({i \in 1..Len(SeoTree) : SeoTree[i].tag = "h1"}, 1, Len(SeoTree))
TextOf(i) == StrOf(get_text(SeoTree, i, <<>>, TRUE))
\* str is the first 100 characters of full
Cut100(str, full) ==
    str = IF Len(full) <= 100 THEN full ELSE SubSeq(full, 1, 100)

\* C12: seo.h1_count is the number of <h1> elements; seo.h1_texts holds one
\* entry for each of the first min(3, h1_count) of them, in document order:
\* the element's text, cut to its first 100 characters.
C12_H1Texts ==
    SeoReturned =>
        /\ SeoSignals.h1_count = Len(SeoH1)
        /\ Len(SeoSignals.h1_texts) = Min(3, SeoSignals.h1_count)
        /\ \A k \in 1..Len(SeoSignals.h1_texts) :
              /\ StrLen(SeoSignals.h1_texts[k]) <= 100
              /\ Cut100(StrOf(SeoSignals.h1_texts[k]), TextOf(SeoH1[k]))

\* a record for a page of four headings: three texts, the second one cut
\* from 121 characters to 100 and the third one whole
C12_Witness ==
    /\ last = "scrape_all" /\ ~ret.raised /\ ret.val.ok
    /\ ret.val.record.seo.h1_count = 4
    /\ Len(ret.val.record.seo.h1_texts) = 3
    /\ StrLen(ret.val.record.seo.h1_texts[2]) = 100
    /\ Len(TextOf(SeoH1[2])) = 121
    /\ ret.val.record.seo.h1_texts[3] = <<"Foo">>

\* the <title> elements of the tree the seo signals were read from, and
\* the character data of an element as it stands in the page
SeoTitles == {i \in 1..Len(SeoTree) : SeoTree[i].tag = "title"}
FirstTitle == CHOOSE i \in SeoTitles : \A j \in SeoTitles : i <= j
DataOf(i) == get_text(SeoTree, i, <<>>, FALSE)

\* C15: seo.title is the text of the first <title> element without the
\* whitespace around it, and the empty string when there is no <title>;
\* seo.title_length is len(title), so 3 for <title>Foo</title> and 0 without
\* a title.
C15_Title ==
    SeoReturned =>
        /\ SeoSignals.title_length = StrLen(SeoSignals.title)
        /\ SeoTitles = {} =>
              SeoSignals.title = <<>> /\ SeoSignals.title_length = 0
        /\ SeoTitles # {} => SeoSignals.title = Strip(DataOf(FirstTitle))
        /\ site.html = <<title, Bar, title_end>> =>
              SeoSignals.title = <<"Bar">> /\ SeoSignals.title_length = 3

\* the record for <title> Foo </title><title>Bar</title>: the first title,
\* trimmed, and its three characters
C15_Witness ==
    /\ last = "scrape_all" /\ ~ret.raised /\ ret.val.ok
    /\ Cardinality(SeoTitles) = 2
    /\ DataOf(FirstTitle) = <<" ", "Foo", " ">>
    /\ ret.val.record.seo.title = <<"Foo">>
    /\ ret.val.record.seo.title_length = 3

\* the anchors with an href of the tree the seo signals were read from,
\* the host of the page and the host of a link
Anchors == {i \in 1..Len(SeoTree) :
               SeoTree[i].tag = "a" /\ Has(SeoTree[i].attrs, "href")}
Href(i) == SeoTree[i].attrs["href"]
PageHost == netloc(url)
HostContained(i) == Contains(PageHost, netloc(Href(i)))
\* an href with a scheme, and an href that begins with http:// or https://
WithScheme(i) == Href(i) # <<>> /\ Href(i)[1] \in SchemePieces
WithHttp(i) == StartsWith(Href(i), HTTP) \/ StartsWith(Href(i), HTTPS)
RootRelative(i) == StartsWith(Href(i), <<"/">>)

\* C16, as the specification states it: an href with a scheme is internal
\* when the page's host occurs in the link's host and external otherwise; an
\* href that begins with / is internal; any other href is counted as
\* neither; so internal_links + external_links is at most the number of
\* anchors with an href.
C16_SchemeLinks ==
    SeoReturned =>
        /\ SeoSignals.internal_links =
              Cardinality({i \in Anchors :
                  \/ WithScheme(i) /\ HostContained(i)
                  \/ ~WithScheme(i) /\ RootRelative(i)})
        /\ SeoSignals.external_links =
              Cardinality({i \in Anchors : WithScheme(i) /\ ~HostContained(i)})
        /\ SeoSignals.internal_links + SeoSignals.external_links
              <= Cardinality(Anchors)

\* C16, amended: an href that begins with http:// or https:// is internal
\* when the page's host occurs in the link's host and external otherwise; an
\* href that begins with / is internal; any other href, relative or with
\* another scheme, is counted as neither; so internal_links + external_links
\* is at most the number of anchors with an href.
C16_HttpLinks ==
    SeoReturned =>
        /\ SeoSignals.internal_links =
              Cardinality({i \in Anchors :
                  \/ WithHttp(i) /\ HostContained(i)
                  \/ ~WithHttp(i) /\ RootRelative(i)})
        /\ SeoSignals.external_links =
              Cardinality({i \in Anchors : WithHttp(i) /\ ~HostContained(i)})
        /\ SeoSignals.internal_links + SeoSignals.external_links
              <= Cardinality(Anchors)

\* the record for links to https://a/x, //b, ftp://b and http://ba on the
\* page https://a: three internal links, no external one
C16_Witness ==
    /\ last = "scrape_all" /\ ~ret.raised /\ ret.val.ok
    /\ Cardinality(Anchors) = 4
    /\ \E i \in Anchors : WithScheme(i) /\ ~WithHttp(i)
    /\ \E i \in Anchors : WithHttp(i) /\ netloc(Href(i)) # PageHost
    /\ ret.val.record.seo.internal_links = 3
    /\ ret.val.record.seo.external_links = 0

-----------------------------------------------------------------------------
(* The speed signals. *)

\* The speed signals a state holds for a response: those of a scrape_all
\* record, and those get_speed_data returns on a scraper whose response
\* was answered with a status below 400.
SpeedReturned ==
    \/ last = "scrape_all" /\ ~ret.raised /\ ret.val.ok
    \/ last = "get_speed_data" /\ response.present /\ response.status < 400
SpeedSignals == IF last = "scrape_all" THEN ret.val.record.speed ELSE ret.val
\* a header of the response, and the spellings of gzip and of no-cache
HeaderPresent(name) == name \in DOMAIN response.headers
Header(name) == response.headers[name]
Spelled(value, spellings) == \E i \in 1..Len(value) : value[i] \in spellings

-----------------------------------------------------------------------------
(* The content signals. *)

\* The content signals a state holds, and the page they are about: the
\* parsed page in scrape_all, the scraper's tree in get_content_data.
ContentReturned ==
    \/ last = "scrape_all" /\ ~ret.raised /\ ret.val.ok
    \/ last = "get_content_data" /\ ~ret.raised /\ soup.present
ContentSignals == IF last = "scrape_all" THEN ret.val.record.content ELSE ret.val
ContentTree == IF last = "scrape_all" THEN Parsed ELSE soup.nodes

\* The word tokens of a string: its maximal runs of letters, from piece
\* sp[1] to piece sp[2], that have two letters or more and no digit next
\* to them.
TokenSpans(str) ==
    {sp \in (1..Len(str)) \X (1..Len(str)) :
        /\ sp[1] <= sp[2]
        /\ \A k \in sp[1]..sp[2] : str[k] \in AlphaPieces
        /\ sp[1] = 1 \/ str[sp[1] - 1] \notin AlphaPieces \cup DigitPieces
        /\ sp[2] = Len(str) \/ str[sp[2] + 1] \notin AlphaPieces \cup DigitPieces
        /\ StrLen(SubSeq(str, sp[1], sp[2])) >= 2}
\* a token, in lower case
LowerToken(str, sp) == StrOf(lower(SubSeq(str, sp[1], sp[2])))

\* the text the content signals are computed from
ContentText == get_text(prune(ContentTree), 0, <<" ">>, TRUE)

\* C13: content.word_count >= content.unique_words >= 0; word_count is the
\* number of word tokens of the text (runs of two letters or more),
\* unique_words the number of different tokens when case is ignored, and
\* unique_words is 0 exactly when word_count is 0.
C13_UniqueWords ==
    ContentReturned =>
        LET wc == ContentSignals.word_count
            uw == ContentSignals.unique_words
            spans == TokenSpans(ContentText)
        IN  /\ wc >= uw /\ uw >= 0
            /\ uw = 0 <=> wc = 0
            /\ wc = Cardinality(spans)
            /\ uw = Cardinality({LowerToken(ContentText, sp) : sp \in spans})

\* the text "One one": two tokens, one unique word
C13_Witness ==
    /\ last = "scrape_all" /\ ~ret.raised /\ ret.val.ok
    /\ ContentText = <<"One", " ", "one">>
    /\ ret.val.record.content.word_count = 2
    /\ ret.val.record.content.unique_words = 1

\* the strings of the page that lie in no script, style, nav, header or
\* footer element
Outside ==
    {i \in 1..Len(ContentTree) :
        /\ ContentTree[i].tag = "#text"
        /\ \A j \in 1..Len(ContentTree) :
              ContentTree[j].tag \in PrunedTags => ~Under(ContentTree, i, j)}
\* the number of word tokens of the strings in Outside from string i on
RECURSIVE TokensFrom(_)
TokensFrom(i) ==
    IF i > Len(ContentTree) THEN 0
    ELSE (IF i \in Outside
          THEN Cardinality(TokenSpans(ContentTree[i].text)) ELSE 0)
         + TokensFrom(i + 1)

\* C14: content.word_count is the number of word tokens of the strings that
\* lie outside every script, style, nav, header and footer element (3 for
\* <nav>Menu</nav><p>one two three</p>), and unique_words the number of
\* different tokens among them: text inside those elements adds to neither.
C14_PrunedText ==
    ContentReturned =>
        /\ ContentSignals.word_count = TokensFrom(1)
        /\ ContentSignals.unique_words =
              Cardinality(UNION {{LowerToken(ContentTree[i].text, sp) :
                                     sp \in TokenSpans(ContentTree[i].text)} :
                                 i \in Outside})
        /\ site.html = NavPage => ContentSignals.word_count = 3

\* the record for <nav>Menu</nav><p>one two three</p>
C14_Witness ==
    /\ last = "scrape_all" /\ ~ret.raised /\ ret.val.ok
    /\ site.html = NavPage
    /\ ret.val.record.content.word_count = 3
    /\ ret.val.record.content.unique_words = 3

\* the raw text of the response the content signals were computed with
RawHtml == RawText(response.html)

-----------------------------------------------------------------------------
(* The ux signals. *)

\* The ux signals a state holds, and the page they are about: the parsed
\* page in scrape_all, the scraper's tree in get_ux_data.
UxReturned ==
    \/ last = "scrape_all" /\ ~ret.raised /\ ret.val.ok
    \/ last = "get_ux_data" /\ ~ret.raised /\ soup.present
UxSignals == IF last = "scrape_all" THEN ret.val.record.ux ELSE ret.val
UxTree == IF last = "scrape_all" THEN Parsed ELSE soup.nodes
UxCount(tags) == Cardinality({i \in 1..Len(UxTree) : UxTree[i].tag \in tags})
UxImagesWithAlt ==
    Cardinality({i \in 1..Len(UxTree) :
        /\ UxTree[i].tag = "img"
        /\ Get(UxTree[i].attrs, "alt", <<>>) # <<>>})
\* the four parts of the accessibility score
AltPart ==
    IF UxCount({"img"}) > 0
    THEN (30 * UxImagesWithAlt) \div UxCount({"img"}) ELSE 0
HeadingPart == IF UxCount({"h1"}) > 0 THEN 20 ELSE 0
LabelPart ==
    IF UxCount({"input"}) > 0
    THEN Min(30, (30 * UxCount({"label"})) \div UxCount({"input"})) ELSE 0
AriaPart ==
    IF \E i \in 1..Len(UxTree) : Has(UxTree[i].attrs, "aria-label")
    THEN 20 ELSE 0

\* C11: ux.accessibility_score is in 0..100 for every page; it is the sum of
\* int(30 * the fraction of the page's images with a non-empty alt), 20 if the
\* page has an <h1>, min(30, int(30 * labels / inputs)) and 20 if an element
\* has an aria-label, and that sum is at most 100.
C11_AccessibilityScore ==
    UxReturned =>
        /\ UxSignals.accessibility_score \in 0..100
        /\ AltPart + HeadingPart + LabelPart + AriaPart <= 100
        /\ UxSignals.accessibility_score =
              AltPart + HeadingPart + LabelPart + AriaPart

\* the <input> elements of the page whose type is submit or button
ButtonInputs ==
    {i \in 1..Len(UxTree) :
        /\ UxTree[i].tag = "input"
        /\ Get(UxTree[i].attrs, "type", <<>>) \in {<<"submit">>, <<"button">>}}

\* C17: ux.button_count is the number of <button> elements plus the number
\* of <input> elements whose type is submit or button; ux.form_count is the
\* number of <form> elements.
C17_ButtonCount ==
    UxReturned =>
        /\ UxSignals.button_count =
              UxCount({"button"}) + Cardinality(ButtonInputs)
        /\ UxSignals.form_count = UxCount({"form"})

\* the page has a <meta name="viewport">, and its serialized markup has
\* one of the responsive class-name substrings in it
ViewportMeta ==
    \E i \in 1..Len(UxTree) :
        /\ UxTree[i].tag = "meta"
        /\ Get(UxTree[i].attrs, "name", <<>>) = <<"viewport">>
ResponsiveMarkup ==
    \E cls \in responsive_classes : Contains(cls, str_soup(UxTree))

\* C20: ux.mobile_friendly_indicators is 30 if the page has a viewport meta
\* plus 40 if a responsive class-name substring occurs in the page's
\* serialized markup, so one of 0, 30, 40, 70; in a scrape_all record the
\* page is the whole fetched page.
C20_MobileFriendly ==
    UxReturned =>
        /\ UxSignals.mobile_friendly_indicators \in {0, 30, 40, 70}
        /\ UxSignals.mobile_friendly_indicators =
              (IF ViewportMeta THEN 30 ELSE 0)
              + (IF ResponsiveMarkup THEN 40 ELSE 0)

-----------------------------------------------------------------------------
(* The scraper over several calls. *)

\* C21: the interval fetch measures is the time the GET took: it starts
\* when the GET is issued and ends when the GET returns, before the body is
\* parsed.  self.load_time and self.response are assigned by the same GET
\* (a GET that raises assigns neither), no extractor changes them, and
\* speed.load_time is that interval, rounded to hundredths of a second.
C21_GetInterval ==
    [][/\ last' \in {"fetch", "scrape_all"} =>
            IF outcome'.raises
            THEN load_time' = load_time /\ response' = response
            ELSE load_time' = outcome'.elapsed
                 /\ response' = AsResponse(outcome')
       /\ last' \notin {"fetch", "scrape_all"} =>
            load_time' = load_time /\ response' = response
       /\ last' = "get_speed_data" =>
            ret'.val.load_time = round(load_time', 10)
       /\ (last' = "scrape_all" /\ ~ret'.raised /\ ret'.val.ok) =>
            ret'.val.record.speed.load_time = round(outcome'.elapsed, 10)]_vars

\* a record of a GET answered after 30 milliseconds whose body took time
\* to parse: load_time is 0.03 seconds, the parsing left out
C21_Witness ==
    /\ last = "scrape_all" /\ ~ret.raised /\ ret.val.ok
    /\ outcome.elapsed = 30 /\ outcome.parse > 0
    /\ load_time = 30
    /\ ret.val.record.speed.load_time = 3

\* the calls that issue a GET, and the extractors that answer {} on a
\* scraper without a tree
Fetching == {"fetch", "scrape_all"}
TreeExtractors == {"get_seo_data", "get_content_data", "get_ux_data"}

\* C22: an extractor called when the most recent fetch returned False
\* returns the empty mapping -- the signals of an earlier successful fetch
\* are not served after a later failed fetch.
C22_NoStaleSignals ==
    [][(last \in Fetching /\ FetchFailed /\ last' \in TreeExtractors) =>
          ret' = Return(EmptyDict)]_vars

\* C23: normalizing a normalized url changes nothing, for every input url,
\* the empty one and a bare 'http://' included.
C23_NormalizeIdempotent ==
    last = "__init__" => _normalize_url(url) = url

\* C24: get_content_data called again returns what it returned: on a
\* scraper that has just answered get_content_data, or whose scrape_all has
\* just built its record, one more call gives an equal mapping and leaves
\* the tree as it is.
C24_ContentIdempotent ==
    /\ last = "get_content_data" =>
          get_content_data(soup, response) = [ret |-> ret, soup |-> soup]
    /\ (last = "scrape_all" /\ ~ret.raised /\ ret.val.ok) =>
          get_content_data(soup, response) =
              [ret |-> Return(ret.val.record.content), soup |-> soup]

\* the first get_content_data after a successful fetch pruned a footer out
\* of the tree and counted the words left
C24_Witness ==
    /\ last = "get_content_data"
    /\ response.status = 200
    /\ site.html = PrunedPage("footer")
    /\ soup.nodes # Parsed
    /\ ret.val.word_count > 0

\* C25: in every record of a successful scrape_all the top-level title is
\* seo.title.
C25_TitleAgrees ==
    (last = "scrape_all" /\ ~ret.raised /\ ret.val.ok) =>
        ret.val.record.title = ret.val.record.seo.title

\* the record of a page whose only title is inside a header: the title is
\* in both places, and get_content_data has since pruned it out of the tree
C25_Witness ==
    /\ last = "scrape_all" /\ ~ret.raised /\ ret.val.ok
    /\ site.html = HeaderTitlePage
    /\ ret.val.record.title # <<>>
    /\ ret.val.record.title = ret.val.record.seo.title
    /\ find_all(soup.nodes, {"title"}) = <<>>

-----------------------------------------------------------------------------
(* json.loads on a sequence of pieces.  A string literal is one piece that *)
(* begins and ends with a double quote; a digit, a bracket, a brace, a     *)
(* comma, a colon and a white-space character are pieces of their own; no  *)
(* other piece of the alphabets holds one of these characters.  A value is *)
(* [type, s, items]: a string or a number with its text in s, a list with  *)
(* its items, or a dict with its <<key, value>> items.                     *)

JsonWs == {" ", "\n", "\t", "\r"}
JsonDigits == {"0", "1", "2", "3", "4", "5", "6", "7", "8", "9"}

IsStringLiteral(piece) ==
    /\ Len(piece) >= 2
    /\ SubSeq(piece, 1, 1) = "\""
    /\ SubSeq(piece, Len(piece), Len(piece)) = "\""

JStr(text) == [type |-> "str", s |-> <<text>>, items |-> <<>>]
JNum(digits) == [type |-> "num", s |-> digits, items |-> <<>>]
JList(items) == [type |-> "list", s |-> <<>>, items |-> items]
JDict(items) == [type |-> "dict", s |-> <<>>, items |-> items]

Parsed_(val, next) == [ok |-> TRUE, val |-> val, next |-> next]
NotJson == [ok |-> FALSE, val |-> JList(<<>>), next |-> 0]

RECURSIVE SkipWs(_, _)
SkipWs(t, i) ==
    IF i <= Len(t) /\ t[i] \in JsonWs THEN SkipWs(t, i + 1) ELSE i

\* the end of the run of digits that starts at i
RECURSIVE DigitsEnd(_, _)
DigitsEnd(t, i) ==
    IF i + 1 <= Len(t) /\ t[i + 1] \in JsonDigits
    THEN DigitsEnd(t, i + 1) ELSE i

\* a key assigned twice keeps its place and takes the later value
RECURSIVE Put(_, _, _)
Put(items, key, val) ==
    IF items = <<>> THEN <<<<key, val>>>>
    ELSE IF Head(items)[1] = key THEN <<<<key, val>>>> \o Tail(items)
    ELSE <<Head(items)>> \o Put(Tail(items), key, val)

RECURSIVE ParseValue(_, _)
RECURSIVE ParseElements(_, _, _)
RECURSIVE ParseMembers(_, _, _)
ParseValue(t, from) ==
    LET i == SkipWs(t, from)
        j == SkipWs(t, i + 1)
        e == DigitsEnd(t, i)
    IN  IF i > Len(t) THEN NotJson
        ELSE IF t[i] = "["
        THEN IF j <= Len(t) /\ t[j] = "]" THEN Parsed_(JList(<<>>), j + 1)
             ELSE ParseElements(t, i + 1, <<>>)
        ELSE IF t[i] = "{"
        THEN IF j <= Len(t) /\ t[j] = "}" THEN Parsed_(JDict(<<>>), j + 1)
             ELSE ParseMembers(t, i + 1, <<>>)
        ELSE IF IsStringLiteral(t[i])
        THEN Parsed_(JStr(SubSeq(t[i], 2, Len(t[i]) - 1)), i + 1)
        ELSE IF t[i] \in JsonDigits
        THEN IF t[i] = "0" /\ e > i THEN NotJson     \* no leading zero
             ELSE Parsed_(JNum(SubSeq(t, i, e)), e + 1)
        ELSE NotJson
ParseElements(t, from, acc) ==
    LET v == ParseValue(t, from)
        j == SkipWs(t, v.next)
    IN  IF ~v.ok \/ j > Len(t) THEN NotJson
        ELSE IF t[j] = "," THEN ParseElements(t, j + 1, Append(acc, v.val))
        ELSE IF t[j] = "]" THEN Parsed_(JList(Append(acc, v.val)), j + 1)
        ELSE NotJson
ParseMembers(t, from, acc) ==
    LET k == SkipWs(t, from)
        c == SkipWs(t, k + 1)
        v == ParseValue(t, c + 1)
        j == SkipWs(t, v.next)
    IN  IF k > Len(t) \/ c > Len(t) THEN NotJson
        ELSE IF ~IsStringLiteral(t[k]) \/ t[c] # ":" THEN NotJson
        ELSE IF ~v.ok \/ j > Len(t) THEN NotJson
        ELSE IF t[j] = ","
        THEN ParseMembers(t, j + 1, Put(acc, t[k], v.val))
        ELSE IF t[j] = "}" THEN Parsed_(JDict(Put(acc, t[k], v.val)), j + 1)
        ELSE NotJson

\* json.loads(text): the value, or json.JSONDecodeError
json_loads(text) ==
    LET v == ParseValue(text, 1)
    IN  IF v.ok /\ SkipWs(text, v.next) > Len(text)
        THEN Return(v.val)
        ELSE Raise("JSONDecodeError")

\* the positions of a piece in a string
Positions(text, piece) == {i \in 1..Len(text) : text[i] = piece}
First(S) == CHOOSE i \in S : \A j \in S : i <= j
Final(S) == CHOOSE i \in S : \A j \in S : i >= j

-----------------------------------------------------------------------------
(* backend/optimization_engine.py.  Scores are integers; a competitor      *)
(* average and a gap, which the code rounds to one decimal, are counted in *)
(* tenths.  A dict is a function on its keys.                              *)

\* d.get(k, default)
DictGet(d, k, default) == IF k \in DOMAIN d THEN d[k] ELSE default

Max(a, b) == IF a > b THEN a ELSE b

CategoryKeys == {"seo_score", "speed_score", "content_score", "ux_score"}
ScoreKeys == CategoryKeys \cup {"overall_score"}

\* lines 55-62 and 494: the status of an overall score
status_of(overall) ==
    IF overall < 40 THEN "critical"
    ELSE IF overall < 60 THEN "needs_work"
    ELSE IF overall < 80 THEN "good"
    ELSE "excellent"

\* lines 77-156: the titles of the fix templates of a category
fix_templates ==
    [seo |-> <<"Optimize Meta Tags", "Add Structured Data",
               "Improve Internal Linking">>,
     speed |-> <<"Compress Images", "Enable Browser Caching", "Minify CSS/JS">>,
     content |-> <<"Expand Content Depth", "Improve Heading Structure",
                   "Add Visual Content">>,
     ux |-> <<"Improve Mobile Experience", "Optimize Navigation",
              "Enhance CTAs">>]

\* line 74: list.sort(key=score) is stable: an entry goes after the entries
\* before it whose score is not greater
RECURSIVE InsertByScore(_, _)
InsertByScore(entry, sorted) ==
    IF sorted = <<>> THEN <<entry>>
    ELSE IF Head(sorted).score <= entry.score
         THEN <<Head(sorted)>> \o InsertByScore(entry, Tail(sorted))
         ELSE <<entry>> \o sorted
RECURSIVE SortByScore(_)
SortByScore(entries) ==
    IF entries = <<>> THEN <<>>
    ELSE InsertByScore(entries[Len(entries)],
                       SortByScore(SubSeq(entries, 1, Len(entries) - 1)))

\* the test of lines 176 and 178, were the list never full
NeverFull(critical_fixes) == FALSE

\* lines 176 and 178: len(critical_fixes) >= 5
full(critical_fixes) == Len(critical_fixes) >= 5

\* lines 164-177: the loop over the first two templates of a category; the
\* state is the list and fix_id
RECURSIVE AddTemplates(_, _, _, _)
AddTemplates(entry, templates, k, st) ==
    IF k > Len(templates) THEN st
    ELSE
    LET appended ==
            [critical_fixes |-> Append(st.critical_fixes,
                [id |-> st.fix_id,
                 title |-> templates[k],
                 category |-> entry.category,
                 impact |-> IF entry.score < 40 THEN "critical" ELSE "high",
                 effort |-> IF entry.category \in {"seo", "content"}
                            THEN "low" ELSE "medium"]),
             fix_id |-> st.fix_id + 1]
    IN  IF full(appended.critical_fixes) THEN appended
        ELSE AddTemplates(entry, templates, k + 1, appended)

\* lines 159-179: the loop over the sorted categories
RECURSIVE AddFixes(_, _, _)
AddFixes(score_categories, i, st) ==
    IF i > Len(score_categories) THEN st
    ELSE
    LET entry == score_categories[i]
        after == IF entry.score < 70
                 THEN AddTemplates(entry,
                          SubSeq(fix_templates[entry.category], 1, 2), 1, st)
                 ELSE st
    IN  IF full(after.critical_fixes) THEN after
        ELSE AddFixes(score_categories, i + 1, after)

\* lines 230-232: min(cap, max(5, int(abs(gap) * 0.5))), the gap in tenths
improvement(gaps, key, cap) ==
    Min(cap, Max(5, Abs(DictGet(gaps, key, 0)) \div 20))

\* lines 277-279: one entry of areas_to_improve
area_to_improve(gaps, key, behind, ahead) ==
    IF DictGet(gaps, key, 0) < 0
    THEN <<behind, round(Abs(DictGet(gaps, key, 0)), 10)>>
    ELSE <<ahead>>

generate_data_driven_blueprint(user_url, user_scores, comp_avg, gaps, scraped_data) ==
    LET overall == DictGet(user_scores, "overall_score", 50)
        seo == DictGet(user_scores, "seo_score", 50)
        speed == DictGet(user_scores, "speed_score", 50)
        content == DictGet(user_scores, "content_score", 50)
        ux == DictGet(user_scores, "ux_score", 50)
        score_categories ==
            SortByScore(<<[category |-> "seo", score |-> seo],
                          [category |-> "speed", score |-> speed],
                          [category |-> "content", score |-> content],
                          [category |-> "ux", score |-> ux]>>)
        looped == AddFixes(score_categories, 1,
                           [critical_fixes |-> <<>>, fix_id |-> 1])
        seo_improvement == improvement(gaps, "seo_score", 25)
        speed_improvement == improvement(gaps, "speed_score", 25)
        content_improvement == improvement(gaps, "content_score", 20)
        overall_improvement ==
            (seo_improvement + speed_improvement + content_improvement) \div 3
    IN  [overall_health |->
            [score |-> overall,
             status |-> status_of(overall),
             summary |-> <<"Your website scored", overall,
                           CASE status_of(overall) = "critical" ->
                                  "Critical issues need immediate attention."
                             [] status_of(overall) = "needs_work" ->
                                  "Several optimization opportunities exist."
                             [] status_of(overall) = "good" ->
                                  "Good performance with room for improvement."
                             [] OTHER -> "Excellent performance!">>],
         critical_fixes |-> looped.critical_fixes,
         quick_wins |-> <<"Add Missing Alt Tags", "Optimize Page Title",
                          "Compress Hero Image", "Write Meta Description",
                          "Fix Broken Links">>,
         seven_day_plan |-> <<"Technical Audit", "Speed Optimization",
                              "Content Audit", "On-Page SEO", "UX Review",
                              "Content Creation", "Review & Monitor">>,
         thirty_day_strategy |-> <<overall_improvement>>,
         competitor_insights |->
            <<area_to_improve(gaps, "seo_score", "SEO optimization",
                              "Maintain SEO advantage"),
              area_to_improve(gaps, "speed_score", "Page speed",
                              "Maintain speed advantage"),
              area_to_improve(gaps, "content_score", "Content depth",
                              "Maintain content advantage")>>,
         predicted_improvements |->
            [seo_score |-> seo_improvement,
             speed_score |-> speed_improvement,
             content_score |-> content_improvement,
             overall_score |-> overall_improvement,
             estimated_traffic_increase |->
                <<overall_improvement * 2, overall_improvement * 3>>]]

\* the scores of the pure-function specification: of every category, a
\* score on either side of 40 and of 70, or no score at all
ScoreSamples == {0, 39, 40, 69, 70, 100}
OverallSamples == {35, 85}
CategoryScores == UNION {[K -> ScoreSamples] : K \in SUBSET CategoryKeys}
Overalls == {<<>>} \cup {"overall_score" :> o : o \in OverallSamples}
GapSamples ==
    {<<>>,
     [k \in ScoreKeys |-> IF k = "seo_score" THEN -325 ELSE 0],
     [k \in ScoreKeys |-> IF k = "speed_score" THEN 1000 ELSE -5]}

\* no scraper is modelled
ScraperIdle ==
    /\ input_url = <<>>
    /\ url = <<>>
    /\ soup = NoSoup
    /\ response = NoResponse
    /\ load_time = 0
    /\ site = [html |-> <<>>, headers |-> NoHeaders, elapsed |-> {}]
    /\ outcome = NoNet
    /\ gets = 0

InitFixes ==
    /\ ScraperIdle
    /\ \E c \in CategoryScores, o \in Overalls, g \in GapSamples :
          args = [user_url |-> <<"a">>, user_scores |-> c @@ o,
                  comp_avg |-> <<>>, gaps |-> g, scraped_data |-> <<>>]
    /\ env = <<>>
    /\ calls = <<>>
    /\ last = "new"
    /\ ret = None

GenerateDataDrivenBlueprint ==
    /\ last = "new"
    /\ ret' = Return(generate_data_driven_blueprint(
                  args.user_url, args.user_scores, args.comp_avg, args.gaps,
                  args.scraped_data))
    /\ last' = "generate_data_driven_blueprint"
    /\ UNCHANGED <<scraperVars, engineVars>>

NextFixes == GenerateDataDrivenBlueprint

SpecFixes == InitFixes /\ [][NextFixes]_vars

\* the scores the blueprint was built from, and its fixes
Score(category) ==
    DictGet(args.user_scores, category \o "_score", 50)
Categories == {"seo", "speed", "content", "ux"}
Fixes == ret.val.critical_fixes
FixesOf(category) == {i \in 1..Len(Fixes) : Fixes[i].category = category}

\* C29: the critical_fixes of generate_data_driven_blueprint are at most
\* five; their ids are 1..n in list order; every fix is of a category that
\* scores below 70, no category has more than two, and the categories come
\* in ascending order of score; a fix is critical when its category scores
\* below 40 and high otherwise; and the list is empty exactly when every
\* category scores at least 70.
C29_CriticalFixes ==
    last = "generate_data_driven_blueprint" =>
        /\ Len(Fixes) <= 5
        /\ \A i \in 1..Len(Fixes) :
              /\ Fixes[i].id = i
              /\ Fixes[i].category \in Categories
              /\ Score(Fixes[i].category) < 70
              /\ Fixes[i].impact \in {"critical", "high"}
              /\ Fixes[i].impact = "critical" <=> Score(Fixes[i].category) < 40
        /\ \A c \in Categories : Cardinality(FixesOf(c)) <= 2
        /\ \A i, j \in 1..Len(Fixes) :
              i < j => Score(Fixes[i].category) <= Score(Fixes[j].category)
        /\ Fixes = <<>> <=> \A c \in Categories : Score(c) >= 70

\* every category scores below 70 and speed, without a score, counts as 50:
\* five fixes, the two critical ones first and the fifth the only one of
\* its category
C29_Witness ==
    /\ last = "generate_data_driven_blueprint"
    /\ args.user_scores = ("seo_score" :> 69) @@ ("content_score" :> 39)
                          @@ ("ux_score" :> 40)
    /\ Len(Fixes) = 5
    /\ Fixes[1].category = "content" /\ Fixes[1].impact = "critical"
    /\ Fixes[3].category = "ux" /\ Fixes[3].impact = "high"
    /\ Fixes[5].category = "speed" /\ Fixes[5].id = 5
    /\ FixesOf("seo") = {}

-----------------------------------------------------------------------------
(* generate_optimization_blueprint and the functions it calls.  A function *)
(* that calls others gives [ret, calls]: what it returns or raises, and    *)
(* the functions and model calls invoked under it, in order.               *)

\* lines 394-417; the averages in tenths
RECURSIVE Totals(_, _, _)
Totals(competitors, i, acc) ==
    IF i > Len(competitors) THEN acc
    ELSE LET scores == DictGet(competitors[i], "scores", <<>>)
         IN  IF DOMAIN scores # {}
             THEN Totals(competitors, i + 1,
                         [count |-> acc.count + 1,
                          totals |-> [k \in ScoreKeys |->
                              acc.totals[k] + DictGet(scores, k, 0)]])
             ELSE Totals(competitors, i + 1, acc)

calculate_competitor_averages(competitors) ==
    IF competitors = <<>> THEN <<>>
    ELSE LET t == Totals(competitors, 1,
                         [count |-> 0, totals |-> [k \in ScoreKeys |-> 0]])
         IN  IF t.count > 0
             THEN [k \in ScoreKeys |-> round(t.totals[k] * 10, t.count)]
             ELSE t.totals

\* lines 420-427; the gaps in tenths
identify_gaps(user_scores, comp_avg) ==
    [k \in ScoreKeys |->
        DictGet(comp_avg, k, 0) - 10 * DictGet(user_scores, k, 0)]

\* lines 490-645: the blueprint that does not depend on the analysis
get_fallback_blueprint(user_scores) ==
    LET overall == DictGet(user_scores, "overall_score", 50)
    IN  [overall_health |->
            [score |-> overall,
             status |-> status_of(overall),
             summary |-> <<"Your website scored", overall,
                           "There are optimization opportunities">>],
         critical_fixes |->
            <<[id |-> 1, title |-> "Optimize Meta Tags", category |-> "seo",
               impact |-> "high", effort |-> "low"],
              [id |-> 2, title |-> "Improve Page Speed", category |-> "speed",
               impact |-> "high", effort |-> "medium"],
              [id |-> 3, title |-> "Enhance Content Quality",
               category |-> "content", impact |-> "high", effort |-> "high"],
              [id |-> 4, title |-> "Add Structured Data", category |-> "seo",
               impact |-> "medium", effort |-> "low"],
              [id |-> 5, title |-> "Improve Mobile Experience",
               category |-> "ux", impact |-> "high", effort |-> "medium"]>>,
         quick_wins |-> <<"Add Missing Alt Tags", "Optimize Title Tags",
                          "Compress Images", "Add Meta Descriptions",
                          "Fix Broken Links">>,
         seven_day_plan |-> <<"SEO Audit", "Speed Optimization",
                              "Content Review", "Technical SEO",
                              "UX Improvements", "Content Creation",
                              "Review & Plan">>,
         thirty_day_strategy |-> <<"10-15">>,
         competitor_insights |-> <<<<"Content depth">>, <<"Page speed">>,
                                   <<"SEO optimization">>>>,
         predicted_improvements |->
            [seo_score |-> 15, speed_score |-> 20, content_score |-> 10,
             overall_score |-> 15,
             estimated_traffic_increase |-> <<25, 40>>]]

\* line 382: re.search(r'\{[\s\S]*\}', response): from the first '{' to the
\* last '}' after it; <<>> stands for no match
search_object(reply) ==
    LET opens == Positions(reply, "{")
        closes == Positions(reply, "}")
    IN  IF opens # {} /\ closes # {} /\ First(opens) < Final(closes)
        THEN SubSeq(reply, First(opens), Final(closes))
        ELSE <<>>

\* lines 368-391 of enhance_blueprint_with_ai (the lines before them build
\* the prompt): one message to the model; its reply's JSON object, or the
\* fallback blueprint when there is none or when anything raises
enhance_blueprint_with_ai(user_url, user_scores, competitors, gaps, blueprint, api_key, model) ==
    LET json_match == search_object(model.reply)
        loaded == json_loads(json_match)
        fallback == [ret |-> Return(get_fallback_blueprint(user_scores)),
                     calls |-> <<"send_message", "get_fallback_blueprint">>]
    IN  IF model.raises THEN fallback
        ELSE IF json_match # <<>>
        THEN IF loaded.raised THEN fallback
             ELSE [ret |-> loaded, calls |-> <<"send_message">>]
        ELSE fallback

\* the truth of a dict: of one json.loads decoded, of one the code built
dict_truth(d) == IF "items" \in DOMAIN d THEN d.items # <<>> ELSE DOMAIN d # {}

\* the truth of os.environ.get('EMERGENT_LLM_KEY'): None and '' are false
key_truth(api_key) == api_key.present /\ api_key.value # ""

\* lines 9-37
generate_optimization_blueprint(user_url, user_scores, competitors, scraped_data, e) ==
    LET comp_avg == calculate_competitor_averages(competitors)
        gaps == identify_gaps(user_scores, comp_avg)
        blueprint == generate_data_driven_blueprint(
                         user_url, user_scores, comp_avg, gaps, scraped_data)
        before == <<"calculate_competitor_averages", "identify_gaps",
                    "generate_data_driven_blueprint">>
        enhanced == enhance_blueprint_with_ai(
                        user_url, user_scores, competitors, gaps, blueprint,
                        e.api_key, e.model)
        after == before \o <<"enhance_blueprint_with_ai">> \o enhanced.calls
    IN  IF key_truth(e.api_key)
        THEN IF ~enhanced.ret.raised /\ dict_truth(enhanced.ret.val)
             THEN [ret |-> enhanced.ret, calls |-> after]
             ELSE [ret |-> Return(blueprint), calls |-> after]
        ELSE [ret |-> Return(blueprint), calls |-> before]

\* the replies of the model: every short sequence of the pieces, and some
\* longer ones
MaxReplyLen == 3
ReplyPieces == {"{", "}", "\"a\"", ":", "1", "x"}
Replies ==
    SeqsUpTo(ReplyPieces, MaxReplyLen)
    \cup {<<"x", " ", "{", "\"a\"", ":", "1", "}", "\n">>,
          <<"{", "\"a\"", ":", "{", "}", "}">>,
          <<"{", "\"a\"", ":", "1", ",", "}">>,
          <<"x", "{", " ", "}", "x">>}
Models ==
    {[raises |-> TRUE, reply |-> <<>>]}
    \cup {[raises |-> FALSE, reply |-> r] : r \in Replies}
ApiKeys == {[present |-> FALSE, value |-> ""], [present |-> TRUE, value |-> ""],
            [present |-> TRUE, value |-> "sk-1"]}
UserScores ==
    {<<>>,
     [k \in ScoreKeys |-> 85],
     [k \in ScoreKeys |-> IF k = "seo_score" THEN 35 ELSE 65]}
CompetitorLists ==
    {<<>>,
     <<"url" :> <<"b">>>>,
     <<("url" :> <<"b">>) @@ ("scores" :> [k \in ScoreKeys |-> 70]),
       "scores" :> ("seo_score" :> 95)>>}

InitBlueprint ==
    /\ ScraperIdle
    /\ \E u \in UserScores, c \in CompetitorLists :
          args = [user_url |-> <<"a">>, user_scores |-> u, competitors |-> c,
                  scraped_data |-> <<>>]
    /\ \E k \in ApiKeys, m \in Models : env = [api_key |-> k, model |-> m]
    /\ calls = <<>>
    /\ last = "new"
    /\ ret = None

GenerateOptimizationBlueprint ==
    /\ last = "new"
    /\ LET g == generate_optimization_blueprint(
                    args.user_url, args.user_scores, args.competitors,
                    args.scraped_data, env)
       IN  ret' = g.ret /\ calls' = g.calls
    /\ last' = "generate_optimization_blueprint"
    /\ UNCHANGED <<scraperVars, args, env>>

NextBlueprint == GenerateOptimizationBlueprint

SpecBlueprint == InitBlueprint /\ [][NextBlueprint]_vars

\* the reply holds a JSON object: some '{' ... '}' of it can be decoded
HoldsObject(reply) ==
    \E a, b \in 1..Len(reply) :
        /\ a < b /\ reply[a] = "{" /\ reply[b] = "}"
        /\ ~json_loads(SubSeq(reply, a, b)).raised
AiFails == env.model.raises \/ ~HoldsObject(env.model.reply)

\* the blueprint generate_data_driven_blueprint builds for the arguments
DataDriven ==
    LET comp_avg == calculate_competitor_averages(args.competitors)
    IN  generate_data_driven_blueprint(
            args.user_url, args.user_scores, comp_avg,
            identify_gaps(args.user_scores, comp_avg), args.scraped_data)

\* C26: with an API key configured, when the model call raises or its reply
\* holds no JSON object that can be decoded, generate_optimization_blueprint
\* raises nothing and returns the blueprint generate_data_driven_blueprint
\* built from the scores and the gaps.
C26_DataDrivenOnFailure ==
    (last = "generate_optimization_blueprint" /\ key_truth(env.api_key)
     /\ AiFails) =>
        /\ ~ret.raised
        /\ ret.val = DataDriven

-----------------------------------------------------------------------------
(* backend/llm_engine.py: parse_action_items.  A response is a sequence of *)
(* pieces: the pieces of JSON, a line feed, a list marker, or a phrase     *)
(* (letters and inner spaces).  Bullet stands for the one character        *)
(* U+2022.                                                                 *)

Bullet == "&bull;"

\* len(s)
RECURSIVE chars(_)
chars(text) ==
    IF text = <<>> THEN 0
    ELSE (IF Head(text) = Bullet THEN 1 ELSE Len(Head(text)))
         + chars(Tail(text))

\* s.strip()
RECURSIVE strip(_)
strip(text) ==
    IF text = <<>> THEN text
    ELSE IF Head(text) \in JsonWs THEN strip(Tail(text))
    ELSE IF text[Len(text)] \in JsonWs
         THEN strip(SubSeq(text, 1, Len(text) - 1))
    ELSE text

\* s.split('\n')
RECURSIVE split_lines(_, _)
split_lines(text, line) ==
    IF text = <<>> THEN <<line>>
    ELSE IF Head(text) = "\n" THEN <<line>> \o split_lines(Tail(text), <<>>)
    ELSE split_lines(Tail(text), Append(line, Head(text)))

\* s[:n] of a list
Take(list, n) == SubSeq(list, 1, Min(n, Len(list)))

\* line 127: re.search(r'\[.*?\]', response, re.DOTALL): from the first '['
\* to the first ']' after it; <<>> stands for no match
search_array(text) ==
    LET opens == Positions(text, "[")
        closes == {j \in Positions(text, "]") : opens # {} /\ j > First(opens)}
    IN  IF closes # {}
        THEN SubSeq(text, First(opens), First(closes))
        ELSE <<>>

\* line 141: line[0].isdigit() or line.startswith('-') or
\* line.startswith(Bullet)
is_item(line) == line # <<>> /\ Head(line) \in JsonDigits \cup {"-", Bullet}

\* line 143: re.sub(r'^[\d\.\-•\*]+\s*', '', line)
Markers == JsonDigits \cup {".", "-", Bullet, "*"}
RECURSIVE DropWhile(_, _)
DropWhile(text, S) ==
    IF text # <<>> /\ Head(text) \in S THEN DropWhile(Tail(text), S) ELSE text
clean(line) ==
    IF line # <<>> /\ Head(line) \in Markers
    THEN DropWhile(DropWhile(line, Markers), JsonWs)
    ELSE line

\* the test of line 144, were it len(cleaned) >= 10
LongFromTen(cleaned) == cleaned # <<>> /\ chars(cleaned) >= 10

\* line 144: cleaned and len(cleaned) > 10
long_enough(cleaned) == cleaned # <<>> /\ chars(cleaned) > 10

\* lines 136-145: the loop over the lines
RECURSIVE collect(_, _, _)
collect(lines, i, items) ==
    IF i > Len(lines) THEN items
    ELSE LET line == strip(lines[i])
             cleaned == clean(line)
         IN  IF is_item(line) /\ long_enough(cleaned)
             THEN collect(lines, i + 1, Append(items, cleaned))
             ELSE collect(lines, i + 1, items)

\* lines 147-153
DefaultItems ==
    <<"Optimize meta titles and descriptions (High Impact)",
      "Improve page load speed (High Impact)",
      "Add more quality content (Medium Impact)",
      "Enhance mobile responsiveness (Medium Impact)",
      "Build quality backlinks (High Impact)">>

\* lines 120-153
parse_action_items(text) ==
    LET json_match == search_array(text)
        loaded == json_loads(json_match)
        items == collect(split_lines(strip(text), <<>>), 1, <<>>)
    IN  IF json_match # <<>> /\ ~loaded.raised /\ loaded.val.type = "list"
        THEN Take(loaded.val.items, 7)
        ELSE IF items # <<>> THEN Take(items, 7) ELSE DefaultItems

\* the responses: every short sequence of the pieces, and some longer ones
MaxResponseLen == 3
Quoted == "\"Fix the titles\""
Phrase == "Compress every image"       \* 20 characters
TenChars == "Add a blog"               \* 10 characters
ResponsePieces == {"[", "]", ",", Quoted, "\n", "-", "1", " ", Phrase, TenChars}
Repeat(text, n) == [i \in 1..(n * Len(text)) |-> text[((i - 1) % Len(text)) + 1]]
Responses ==
    SeqsUpTo(ResponsePieces, MaxResponseLen)
    \cup {<<"[">> \o Repeat(<<Quoted, ",">>, 7) \o <<Quoted, "]">>,
          Repeat(<<"-", " ", Phrase, "\n">>, 8),
          <<"Plan", ":", "\n", "[", Quoted, ",", " ", Quoted, "]", "\n">>,
          <<"1", ".", " ", Phrase, "\n", Bullet, Phrase, "\n",
            "*", " ", Phrase, "\n", "-", "*", "1", "Add a blog!">>,
          <<"[", "1", "]", " ", "[", Quoted, "]">>,
          <<"[", "see", "]", "\n", "-", " ", Phrase>>,
          <<"[", "{", "}", "]">>}

InitParse ==
    /\ ScraperIdle
    /\ args \in {[response |-> r] : r \in Responses}
    /\ env = <<>>
    /\ calls = <<>>
    /\ last = "new"
    /\ ret = None

ParseActionItems ==
    /\ last = "new"
    /\ ret' = Return(parse_action_items(args.response))
    /\ last' = "parse_action_items"
    /\ UNCHANGED <<scraperVars, engineVars>>

NextParse == ParseActionItems

SpecParse == InitParse /\ [][NextParse]_vars

\* the array the response holds, if it holds one that can be decoded, and
\* the lines that are items
ArrayFound ==
    /\ search_array(args.response) # <<>>
    /\ ~json_loads(search_array(args.response)).raised
FoundItems == json_loads(search_array(args.response)).val.items
ItemLines == collect(split_lines(strip(args.response), <<>>), 1, <<>>)

\* C30: parse_action_items returns a list of one to seven items, whatever
\* the response: the first seven of the JSON array found in it, else the
\* first seven of its cleaned bullet or numbered lines of more than ten
\* characters, else the five default items.
C30_ActionItems ==
    last = "parse_action_items" =>
        /\ ~ret.raised
        /\ Len(ret.val) \in 1..7
        /\ ret.val = IF ArrayFound THEN Take(FoundItems, 7)
                     ELSE IF ItemLines # <<>> THEN Take(ItemLines, 7)
                     ELSE DefaultItems

-----------------------------------------------------------------------------
(* backend/llm_engine.py: generate_ai_suggestions and its fallback. *)

\* lines 167-170: the word for a score in the summary
score_label(score, strong, middle, weak) ==
    IF score >= 70 THEN strong ELSE IF score >= 50 THEN middle ELSE weak

\* the plan of lines 196-204, were there no default items
NoDefault(action_plan) == action_plan

\* lines 196-204: the five default items for an empty plan
or_default(action_plan) ==
    IF action_plan = <<>>
    THEN <<"Maintain current SEO practices (Low Priority)",
           "Monitor competitor changes monthly (Medium Impact)",
           "A/B test landing page elements (Medium Impact)",
           "Build quality backlinks (High Impact)",
           "Update content regularly (Medium Impact)">>
    ELSE action_plan

\* lines 155-206: the pair <<suggestions, action_plan>>
generate_fallback_suggestions(user_scores, comparison) ==
    LET seo == DictGet(user_scores, "seo_score", 50)
        speed == DictGet(user_scores, "speed_score", 50)
        content == DictGet(user_scores, "content_score", 50)
        ux == DictGet(user_scores, "ux_score", 50)
        If(cond, items) == IF cond THEN items ELSE <<>>
    IN  << [overall |-> DictGet(user_scores, "overall_score", 50),
            breakdown |->
               <<score_label(seo, "Strong", "Needs improvement",
                       "Critical attention needed"),
                 score_label(speed, "Excellent", "Moderate", "Slow loading times"),
                 score_label(content, "Rich content", "Average",
                       "Content gaps identified"),
                 score_label(ux, "Great experience", "Acceptable",
                       "User experience issues")>>,
            recommendations |->
               If(seo < 70, <<"1. Improve SEO">>)
               \o If(speed < 70, <<"2. Boost Speed">>)
               \o If(content < 70, <<"3. Enhance Content">>)
               \o If(ux < 70, <<"4. Improve UX">>)],
           or_default(
               If(seo < 70,
                  <<"Optimize all page titles to be 50-60 characters (High Impact)",
                    "Add meta descriptions to all pages (High Impact)">>)
               \o If(speed < 70,
                  <<"Compress and optimize all images (High Impact)",
                    "Enable browser caching (Medium Impact)">>)
               \o If(content < 70,
                  <<"Create a blog with industry-relevant articles (High Impact)",
                    "Add FAQ section to address common questions (Medium Impact)">>)
               \o If(ux < 70,
                  <<"Ensure full mobile responsiveness (High Impact)",
                    "Simplify navigation structure (Medium Impact)">>)) >>

\* lines 28-40: the competitor summary and the two texts of the comparison;
\* w['area'] raises KeyError for a weakness without an area
build_context(competitors, comparison) ==
    LET weaknesses == DictGet(comparison, "weaknesses", <<>>)
    IN  IF \E i \in 1..Len(weaknesses) : "area" \notin DOMAIN weaknesses[i]
        THEN Raise("KeyError")
        ELSE Return([competitors |-> Len(competitors),
                     strengths |-> DictGet(comparison, "strengths", <<>>),
                     weaknesses |->
                        [i \in 1..Len(weaknesses) |-> weaknesses[i]["area"]]])

\* lines 11-117.  chat is what the model does: building the LlmChat may
\* raise, and so may each of the two send_message calls, which otherwise
\* give the analysis and the action items
generate_ai_suggestions(user_url, user_scores, competitors, comparison, e) ==
    LET fallback == generate_fallback_suggestions(user_scores, comparison)
        context == build_context(competitors, comparison)
        chat == e.chat
    IN  IF ~key_truth(e.api_key)
        THEN [ret |-> Return(fallback),
              calls |-> <<"generate_fallback_suggestions">>]
        ELSE IF context.raised
        THEN [ret |-> context, calls |-> <<>>]
        ELSE IF chat.raises = "LlmChat"
        THEN [ret |-> Return(fallback),
              calls |-> <<"LlmChat", "generate_fallback_suggestions">>]
        ELSE IF chat.raises = "analysis"
        THEN [ret |-> Return(fallback),
              calls |-> <<"LlmChat", "send_message",
                          "generate_fallback_suggestions">>]
        ELSE IF chat.raises = "actions"
        THEN [ret |-> Return(fallback),
              calls |-> <<"LlmChat", "send_message", "send_message",
                          "generate_fallback_suggestions">>]
        ELSE [ret |-> Return(<<chat.analysis,
                               parse_action_items(chat.actions)>>),
              calls |-> <<"LlmChat", "send_message", "send_message",
                          "parse_action_items">>]

\* what the model may do, the scores on either side of 70 (or none), and
\* the comparisons
Analyses == {<<>>, <<"Your", " ", "site">>}
ActionResponses ==
    {<<"[", Quoted, ",", " ", Quoted, "]">>,
     <<"[", "]">>,
     <<"-", " ", Phrase, "\n", "-", " ", TenChars>>,
     <<"Sorry">>}
Chats ==
    {[raises |-> r, analysis |-> <<>>, actions |-> <<>>] :
        r \in {"LlmChat", "analysis", "actions"}}
    \cup {[raises |-> "", analysis |-> a, actions |-> r] :
            a \in Analyses, r \in ActionResponses}
SuggestionScores ==
    UNION {[K -> {69, 70}] : K \in SUBSET CategoryKeys}
Comparisons ==
    {<<>>,
     [user_rank |-> 2, total_sites |-> 3, strengths |-> <<"Speed">>,
      weaknesses |-> <<[area |-> "SEO", gap |-> 12]>>]}

InitSuggestions ==
    /\ ScraperIdle
    /\ \E u \in SuggestionScores, c \in CompetitorLists, k \in Comparisons :
          args = [user_url |-> <<"a">>, user_scores |-> u, competitors |-> c,
                  comparison |-> k]
    /\ \E k \in ApiKeys, m \in Chats : env = [api_key |-> k, chat |-> m]
    /\ calls = <<>>
    /\ last = "new"
    /\ ret = None

GenerateAiSuggestions ==
    /\ last = "new"
    /\ LET g == generate_ai_suggestions(
                    args.user_url, args.user_scores, args.competitors,
                    args.comparison, env)
       IN  ret' = g.ret /\ calls' = g.calls
    /\ last' = "generate_ai_suggestions"
    /\ UNCHANGED <<scraperVars, args, env>>

NextSuggestions == GenerateAiSuggestions

SpecSuggestions == InitSuggestions /\ [][NextSuggestions]_vars

\* the functions called, the categories that score below 70 (a missing
\* score counts as 50), and the fallback for the arguments
Called == {calls[i] : i \in 1..Len(calls)}
Low == {c \in Categories : Score(c) < 70}
Fallback == generate_fallback_suggestions(args.user_scores, args.comparison)

-----------------------------------------------------------------------------
(* backend/implementation_engine.py: implement_fix and the six functions   *)
(* it routes to.  A fix type is a string of characters.                    *)

UpperCase == "ABCDEFGHIJKLMNOPQRSTUVWXYZ"
LowerCase == "abcdefghijklmnopqrstuvwxyz"
CharAt(str, i) == SubSeq(str, i, i)

\* the characters of str, each one mapped by f
RECURSIVE MapChars(_, _, _)
MapChars(f(_), str, i) ==
    IF i > Len(str) THEN "" ELSE f(CharAt(str, i)) \o MapChars(f, str, i + 1)

\* str.lower() on ASCII
lower_char(c) ==
    IF \E i \in 1..26 : CharAt(UpperCase, i) = c
    THEN CharAt(LowerCase, CHOOSE i \in 1..26 : CharAt(UpperCase, i) = c)
    ELSE c
str_lower(str) == MapChars(lower_char, str, 1)

\* str.replace(old, new) for one-character strings
str_replace(str, old, new) ==
    LET swap(c) == IF c = old THEN new ELSE c
    IN  MapChars(swap, str, 1)

\* the normalization, were the spaces left alone
NormalizeHyphens(fix_type) == str_replace(str_lower(fix_type), "-", "_")

\* line 523: fix_type.lower().replace("-", "_").replace(" ", "_")
normalize_fix_type(fix_type) ==
    str_replace(str_replace(str_lower(fix_type), "-", "_"), " ", "_")

\* lines 501-520: the routing table
implementations ==
    [meta_tags |-> "implement_meta_tags",
     meta |-> "implement_meta_tags",
     title |-> "implement_meta_tags",
     description |-> "implement_meta_tags",
     schema |-> "implement_schema_markup",
     structured_data |-> "implement_schema_markup",
     json_ld |-> "implement_schema_markup",
     alt_tags |-> "implement_alt_tags",
     images |-> "implement_alt_tags",
     alt_text |-> "implement_alt_tags",
     internal_links |-> "implement_internal_linking",
     linking |-> "implement_internal_linking",
     speed |-> "implement_speed_optimization",
     performance |-> "implement_speed_optimization",
     caching |-> "implement_speed_optimization",
     content |-> "implement_content_optimization",
     headings |-> "implement_content_optimization",
     word_count |-> "implement_content_optimization"]

\* lines 126, 204, 269, 322, 384, 464: the title of the response a function
\* builds itself
FallbackTitle ==
    [implement_meta_tags |-> "Optimized Meta Tags",
     implement_schema_markup |-> "Schema.org Structured Data",
     implement_alt_tags |-> "Image Alt Text Optimization",
     implement_internal_linking |-> "Internal Linking Structure",
     implement_speed_optimization |-> "Speed Optimization",
     implement_content_optimization |-> "Content Optimization"]

\* ImplementResponse(**result): result is a dict with the four fields of
\* the class, implementations a list of dicts with the fields of
\* Implementation
Field(d, key) ==
    LET hits == {i \in 1..Len(d.items) : d.items[i][1] = key}
    IN  IF hits = {} THEN NotJson.val ELSE d.items[CHOOSE i \in hits : TRUE][2]
HasFields(d, keys) ==
    d.type = "dict" /\ \A k \in keys : \E i \in 1..Len(d.items) : d.items[i][1] = k
valid_response(result) ==
    /\ HasFields(result, {"\"suggestion_id\"", "\"title\"", "\"status\"",
                          "\"implementations\""})
    /\ \A k \in {"\"suggestion_id\"", "\"title\"", "\"status\""} :
          Field(result, k).type = "str"
    /\ LET list == Field(result, "\"implementations\"")
       IN  /\ list.type = "list"
           /\ \A i \in 1..Len(list.items) :
                 HasFields(list.items[i],
                           {"\"file\"", "\"placement\"", "\"after\"",
                            "\"action_label\"", "\"estimated_impact\""})

\* lines 90-139, 142-216, 219-281, 284-347, 350-426, 429-495: one of the six
\* functions: one message to the model; the reply as an ImplementResponse,
\* or the response the function builds itself when the reply is not JSON
implement(name, request, model) ==
    LET result == json_loads(model.reply)
    IN  IF model.raises
        THEN [ret |-> Raise("send_message"), calls |-> <<name, "send_message">>]
        ELSE IF result.raised
        THEN [ret |-> Return([suggestion_id |-> request.suggestion_id,
                              title |-> FallbackTitle[name],
                              status |-> "implemented"]),
              calls |-> <<name, "send_message">>]
        ELSE IF valid_response(result.val)
        THEN [ret |-> Return([suggestion_id |->
                                  Field(result.val, "\"suggestion_id\"").s[1],
                              title |-> Field(result.val, "\"title\"").s[1],
                              status |-> Field(result.val, "\"status\"").s[1]]),
              calls |-> <<name, "send_message">>]
        ELSE [ret |-> Raise("ValidationError"),
              calls |-> <<name, "send_message">>]

\* lines 498-532
implement_fix(fix_type, request, model) ==
    LET fix_type_lower == normalize_fix_type(fix_type)
    IN  IF fix_type_lower \in DOMAIN implementations
        THEN implement(implementations[fix_type_lower], request, model)
        ELSE implement("implement_content_optimization", request, model)

\* the fix types: every key of the table as it is, in upper case, with
\* hyphens and with spaces; and every short sequence of some pieces
MaxFixLen == 3
str_upper(str) ==
    LET up(c) == IF \E i \in 1..26 : CharAt(LowerCase, i) = c
                 THEN CharAt(UpperCase, CHOOSE i \in 1..26 : CharAt(LowerCase, i) = c)
                 ELSE c
    IN  MapChars(up, str, 1)
FixPieces == {"meta", "Tags", "alt", "-", " ", "_", "X"}
RECURSIVE Glue(_)
Glue(pieces) == IF pieces = <<>> THEN "" ELSE Head(pieces) \o Glue(Tail(pieces))
FixTypes ==
    DOMAIN implementations
    \cup {str_upper(k) : k \in DOMAIN implementations}
    \cup {str_replace(k, "_", "-") : k \in DOMAIN implementations}
    \cup {str_replace(str_upper(k), "_", " ") : k \in DOMAIN implementations}
    \cup {Glue(q) : q \in SeqsUpTo(FixPieces, MaxFixLen)}
    \cup {"Json-LD", "word count ", "seo"}
FixReplies ==
    {<<"Sorry">>,
     <<"[", "]">>,
     <<"{", "\"status\"", ":", "\"implemented\"", "}">>,
     <<"{", "\"suggestion_id\"", ":", "\"s1\"", ",", "\"title\"", ":",
       "\"Done\"", ",", "\"status\"", ":", "\"implemented\"", ",",
       "\"implementations\"", ":", "[", "]", "}">>}
FixModels ==
    {[raises |-> TRUE, reply |-> <<>>]}
    \cup {[raises |-> FALSE, reply |-> r] : r \in FixReplies}

InitImplement ==
    /\ ScraperIdle
    /\ \E t \in FixTypes :
          args = [fix_type |-> t,
                  request |-> [url |-> <<"a">>, suggestion_id |-> "s1",
                               title |-> "Fix", description |-> "d"]]
    /\ \E m \in FixModels : env = [model |-> m]
    /\ calls = <<>>
    /\ last = "new"
    /\ ret = None

ImplementFix ==
    /\ last = "new"
    /\ LET f == implement_fix(args.fix_type, args.request, env.model)
       IN  ret' = f.ret /\ calls' = f.calls
    /\ last' = "implement_fix"
    /\ UNCHANGED <<scraperVars, args, env>>

NextImplement == ImplementFix

SpecImplement == InitImplement /\ [][NextImplement]_vars

\* the implementation functions a call invoked, in order
ImplementationFunctions == {implementations[k] : k \in DOMAIN implementations}
Invoked == SelectSeq(calls, LAMBDA c : c \in ImplementationFunctions)

\* a fix type names a key of the table: it has the key's characters, in
\* either case, with '_', '-' or ' ' where the key has '_'
Names(fix_type, key) ==
    /\ Len(fix_type) = Len(key)
    /\ \A i \in 1..Len(key) :
          IF CharAt(key, i) = "_"
          THEN CharAt(fix_type, i) \in {"_", "-", " "}
          ELSE CharAt(fix_type, i) \in
                  {CharAt(key, i),
                   CharAt(UpperCase,
                          CHOOSE j \in 1..26 : CharAt(LowerCase, j) = CharAt(key, i))}

\* C28: implement_fix invokes exactly one implementation function: the one
\* the table maps the normalized fix type to (lower case, '-' and ' ' as
\* '_'), and implement_content_optimization for every type the table does
\* not have.
C28_Routing ==
    last = "implement_fix" =>
        /\ Len(Invoked) = 1
        /\ \A k \in DOMAIN implementations :
              Names(args.fix_type, k) => Invoked[1] = implementations[k]
        /\ (~\E k \in DOMAIN implementations : Names(args.fix_type, k)) =>
              Invoked[1] = "implement_content_optimization"

\* 'STRUCTURED DATA' reached implement_schema_markup, and no other function
C28_Witness ==
    /\ last = "implement_fix"
    /\ args.fix_type = "STRUCTURED DATA"
    /\ Invoked = <<"implement_schema_markup">>
    /\ ~ret.raised /\ ret.val.title = "Schema.org Structured Data"

=============================================================================
